---- MODULE Spec2Model ----
(***************************************************************************)
(* Model of the agent-trace backend.                                       *)
(*                                                                         *)
(* Part 1: the AI-analysis cache and gate of backend/ai_service.py.        *)
(* AIAnalysisService.analyze_error is modelled as a per-thread program     *)
(* whose steps are the statements that touch the shared module-level       *)
(* dictionary _analysis_cache or the clock:                                *)
(*   membership test (l.67), entry read (l.70), age check (l.74-76),       *)
(*   delete (l.78), provider call (l.215), and parse, build and store       *)
(*   (l.232-250, l.88-91) on the provider's answer.                        *)
(* The dictionary has no lock, so the steps of different threads           *)
(* interleave freely.  Time is counted in hours.                           *)
(***************************************************************************)
EXTENDS Integers, Sequences, FiniteSets, TLC

VARIABLES
    enabled,            \* self.enabled                        (l.24)
    client,             \* self.client: "OpenAI" or "None"     (l.33-40)
    cache_enabled,      \* self.cache_enabled                  (l.26)
    now,                \* datetime.now(), in hours
    _analysis_cache,    \* the module-level dictionary         (l.15)
    pc,                 \* per thread: position inside analyze_error
    request,            \* per thread: arguments of the running call
    cache_entry,        \* per thread: local cache_entry of _get_cached_analysis
    response_text,      \* per thread: local response_text of analyze_error (l.232)
    result,             \* per thread: what the call returned or raised
    provider_calls,     \* per thread: provider calls made by the running call
    provider_failed,    \* per thread: the provider call of the running call raised
    own_ops,            \* per thread: cache modifications made by the running call
    written,            \* history: every <<key, entry>> assigned at l.88
    calls,              \* number of analyze_error calls started
    args,               \* the arguments of the function being applied
    returned,           \* what that function returned or raised
    supabase,           \* main.py l.65: whether the database client exists
    in_memory_traces,   \* main.py l.66: the in-memory store, trace id to record
    traces_table,       \* the rows of the database table "traces", by id
    usage_limits,       \* table "usage_limits": trace_count of the period, by user
    requests,           \* security.py l.165: rate_limiter.requests, by client IP
    clock,              \* datetime.now() of the rate limiter: a position in Instants
    window_log,         \* history: per client IP, the times of the requests
                        \* allowed during the window that ends now
    rate_response,      \* what check_rate_limit did with the last request
    increments,         \* per worker: the increment_usage call under way, with the
                        \* user and the trace_count it has read, or None
    uploads,            \* history of UsageSpec: uploads completed in the period, by user
    http_request,       \* the request the server handled last
    http_response       \* the response it gave

\* the state of the cache and gate
gate_vars == <<enabled, client, cache_enabled, now, _analysis_cache, pc, request,
               cache_entry, response_text, result, provider_calls, provider_failed,
               own_ops, written, calls>>

\* the state of a function application
fn_vars == <<args, returned>>

\* the state of the HTTP server: stores and the last exchange
\* the state of the rate limiter
limiter_vars == <<requests, clock, window_log, rate_response>>

\* the increment_usage calls under way and the uploads they belong to
usage_vars == <<increments, uploads>>

server_vars == <<supabase, in_memory_traces, traces_table, usage_limits, http_request,
                http_response, limiter_vars, usage_vars>>

\* the stores of the server
server_store == <<supabase, in_memory_traces, traces_table, usage_limits>>

\* the service apart from its cache
gate_rest == <<enabled, client, cache_enabled, now, pc, request, cache_entry,
               response_text, result, provider_calls, provider_failed, own_ops,
               written, calls>>

vars == <<gate_vars, fn_vars, server_vars>>

-----------------------------------------------------------------------------
(* Bounds of the model *)

MaxTime == 36
MaxCalls == 3

\* two concurrent callers of analyze_error
Threads == {1, 2}
\* the clock advances in steps of 12 hours: ages 0, 12, 24 (the TTL itself), 36
TickSteps == {12}

-----------------------------------------------------------------------------
(* Program constants *)

CACHE_TTL_HOURS == 24
ContentKeyLimit == 500

model == "gpt-4o-mini"

None == [none |-> TRUE]

required_fields == <<"summary", "root_cause", "suggested_fix">>

-----------------------------------------------------------------------------
(* Requests: the arguments of analyze_error *)

Take(s, n) == SubSeq(s, 1, IF Len(s) < n THEN Len(s) ELSE n)

NoInputs == [k \in {} |-> ""]

StepContexts ==
    { [step_type |-> "error", content |-> <<"b", "o", "o", "m">>, inputs |-> NoInputs] }

TraceContexts == { [trace_id |-> "trace-1", previous_steps |-> <<>>] }

ErrorMessages == {"ValueError: bad arg"}

Requests ==
    [error_message : ErrorMessages, step_context : StepContexts,
     trace_context : TraceContexts, force_refresh : BOOLEAN]

\* A mapping of the request (inputs, outputs) is a Python dict: its items in
\* insertion order, a sequence of <<key, value>> with distinct keys.
\* The keys that occur, in lexicographic order:
Alphabet == <<"a", "b">>

\* variant of json_dumps: the items are written in insertion order
json_dumps_unsorted(mapping) == mapping

\* json.dumps(mapping, sort_keys=True): the text lists the items by ascending
\* key; it is modelled by that list
json_dumps(mapping) ==
    LET keys == { mapping[i][1] : i \in DOMAIN mapping }
        value(k) == mapping[CHOOSE i \in DOMAIN mapping : mapping[i][1] = k][2]
        sorted_keys == SelectSeq(Alphabet, LAMBDA k : k \in keys)
    IN [j \in DOMAIN sorted_keys |-> <<sorted_keys[j], value(sorted_keys[j])>>]

\* context.get(key, default)
GetField(context, key, default) ==
    IF key \in DOMAIN context THEN context[key] ELSE default

\* l.50-60.  sha256 over the sorted-key JSON of cache_data: the digest is
\* modelled by the serialized data itself (an injective function of it)
_generate_cache_key(error_message, step_context, trace_context) ==
    [error      |-> error_message,
     step_type  |-> GetField(step_context, "step_type", ""),
     content    |-> Take(GetField(step_context, "content", <<>>), ContentKeyLimit),
     inputs     |-> json_dumps(GetField(step_context, "inputs", <<>>)),
     trace_id   |-> GetField(trace_context, "trace_id", "")]

KeyOf(req) == _generate_cache_key(req.error_message, req.step_context, req.trace_context)

Keys == { KeyOf(r) : r \in Requests }

-----------------------------------------------------------------------------
(* Provider replies and _parse_ai_response *)

\* A reply text: an optional code fence (opened by ```json or by ```), closed
\* or not, around a body.  A body is a JSON object (a mapping of field names to
\* values), a JSON array without the field names ("array", obj empty), or text
\* that is not JSON ("text").
Obj(n) ==
    [summary |-> "summary " \o n, root_cause |-> "cause " \o n,
     suggested_fix |-> "fix " \o n]

Body(kind, obj) == [kind |-> kind, obj |-> obj]

NoObj == [k \in {} |-> ""]

Reply(fence, closed, body) == [fence |-> fence, closed |-> closed, body |-> body]

Replies ==
    { Reply("none", TRUE, Body("object", Obj("A"))),
      Reply("json", TRUE, Body("object", Obj("B"))),
      Reply("plain", FALSE, Body("object", Obj("A"))),
      Reply("none", TRUE, Body("object", [summary |-> "summary A", suggested_fix |-> "fix A"])),
      Reply("none", TRUE, Body("array", NoObj)),
      Reply("none", TRUE, Body("text", NoObj)) }

\* l.135-142: the text between the opening fence and the next fence; when no
\* closing fence exists find() gives -1 and the slice drops the last character,
\* which leaves an object or an array without its closing bracket
StripFence(reply) ==
    IF reply.fence = "none" \/ reply.closed
    THEN reply.body
    ELSE Body("text", NoObj)

\* the first required field the parsed value lacks, or "" (l.148-151)
FirstMissing(obj) ==
    IF \E i \in 1..Len(required_fields) : required_fields[i] \notin DOMAIN obj
    THEN LET i == CHOOSE i \in 1..Len(required_fields) :
                    /\ required_fields[i] \notin DOMAIN obj
                    /\ \A j \in 1..(i - 1) : required_fields[j] \in DOMAIN obj
         IN required_fields[i]
    ELSE ""

\* whether _parse_ai_response returns from its try block (l.153-157)
ParseSucceeds(reply) ==
    LET body == StripFence(reply)
    IN body.kind = "object" /\ FirstMissing(body.obj) = ""

\* variant of _parse_ai_response: a reply that cannot be used yields the fields
\* that could be read and blanks for the others
_parse_ai_response_blank(reply) ==
    LET body == StripFence(reply)
        field(f) == IF body.kind = "object" /\ f \in DOMAIN body.obj THEN body.obj[f] ELSE ""
    IN [summary       |-> field("summary"),
        root_cause    |-> field("root_cause"),
        suggested_fix |-> field("suggested_fix")]

_parse_ai_response(reply) ==
    LET body == StripFence(reply)
    IN IF body.kind = "text"
       THEN \* json.JSONDecodeError (l.158-166)
            [summary       |-> "Failed to parse AI response",
             root_cause    |-> "The AI response could not be parsed",
             suggested_fix |-> "Please try again or check the error manually"]
       ELSE IF body.kind = "object" /\ FirstMissing(body.obj) = ""
       THEN [summary       |-> body.obj.summary,
             root_cause    |-> body.obj.root_cause,
             suggested_fix |-> body.obj.suggested_fix]
       ELSE \* the ValueError of l.151, caught at l.167-173; root_cause is str(e)
            [summary       |-> "Error analyzing response",
             root_cause    |-> "Missing required field: " \o FirstMissing(body.obj),
             suggested_fix |-> "Please try again"]

\* l.238-245
BuildFullResponse(parsed_response, t_now) ==
    [summary       |-> parsed_response.summary,
     root_cause    |-> parsed_response.root_cause,
     suggested_fix |-> parsed_response.suggested_fix,
     model_used    |-> model,
     cached        |-> FALSE,
     created_at    |-> t_now]

-----------------------------------------------------------------------------
(* The cache *)

\* variant of is_enabled: the client is not looked at
is_enabled_flag_only == enabled

\* l.42-44
is_enabled == enabled /\ client # "None"

\* variant of IsExpired: an entry expires already at the age of the TTL
IsExpired_at_ttl(created_at, t_now) == t_now - created_at >= CACHE_TTL_HOURS

\* l.75-76
IsExpired(created_at, t_now) == t_now - created_at > CACHE_TTL_HOURS

\* variant of StoreEntry: an existing entry is kept (setdefault)
StoreEntry_if_absent(cache, key, response, t_now) ==
    IF cache[key] = None
    THEN [cache EXCEPT ![key] = [response |-> response, created_at |-> t_now]]
    ELSE cache

\* variant of StoreEntry: an existing entry is updated in place, its response
\* first; the creation time of the old entry is still there
StoreEntry_in_place(cache, key, response, t_now) ==
    IF cache[key] = None
    THEN [cache EXCEPT ![key] = [response |-> response, created_at |-> t_now]]
    ELSE [cache EXCEPT ![key].response = response]

\* l.88-91
StoreEntry(cache, key, response, t_now) ==
    [cache EXCEPT ![key] = [response |-> response, created_at |-> t_now]]

\* l.78
DeleteEntry(cache, key) == [cache EXCEPT ![key] = None]

\* variant of CachedResult: the cached response is returned as stored
CachedResult_unflagged(cached_response) == cached_response

\* l.205-208
CachedResult(cached_response) == [cached_response EXCEPT !.cached = TRUE]

Returned(value) == [kind |-> "return", value |-> value]

Raised(error) == [kind |-> "raise", error |-> error]

-----------------------------------------------------------------------------
(* Initial state: the service as constructed by __init__, the cache empty *)

\* the identifiers that uuid4 draws for traces, in the order drawn
TraceIds == <<"t1">>

\* the user ids the authentication service knows
UserNames == {"alice", "bob"}

\* the client IPs that get_client_ip reports
ClientIPs == {"10.0.0.1", "10.0.0.2"}

\* security.py l.164-165 and 190: the rate limiter as constructed
LimiterAtRest ==
    /\ requests = [client_ip \in {} |-> <<>>]
    /\ clock = 1
    /\ window_log = [client_ip \in ClientIPs |-> <<>>]
    /\ rate_response = None

\* the server processes or threads that handle uploads against one database
Workers == {1, 2}

\* no upload under way, none completed
UsageAtRest ==
    /\ increments = [w \in Workers |-> None]
    /\ uploads = [user \in UserNames |-> 0]

\* the server before any request, without database
ServerAtRest ==
    /\ LimiterAtRest
    /\ UsageAtRest
    /\ supabase = FALSE
    /\ usage_limits = [user \in UserNames |-> 0]
    /\ in_memory_traces = [id \in {TraceIds[i] : i \in DOMAIN TraceIds} |-> None]
    /\ traces_table = [id \in {TraceIds[i] : i \in DOMAIN TraceIds} |-> None]
    /\ http_request = None
    /\ http_response = None

Init ==
    /\ \E api_key_set \in BOOLEAN, ai_enabled \in BOOLEAN, constructed \in BOOLEAN :
          /\ enabled = ai_enabled
          /\ client = IF api_key_set /\ ai_enabled /\ constructed THEN "OpenAI" ELSE "None"
    /\ cache_enabled \in BOOLEAN
    /\ now = 0
    /\ _analysis_cache = [k \in Keys |-> None]
    /\ pc = [t \in Threads |-> "idle"]
    /\ request = [t \in Threads |-> None]
    /\ cache_entry = [t \in Threads |-> None]
    /\ response_text = [t \in Threads |-> None]
    /\ result = [t \in Threads |-> None]
    /\ provider_calls = [t \in Threads |-> 0]
    /\ provider_failed = [t \in Threads |-> FALSE]
    /\ own_ops = [t \in Threads |-> {}]
    /\ written = {}
    /\ calls = 0
    /\ args = None
    /\ returned = None
    /\ ServerAtRest

cache_key(t) == KeyOf(request[t])

-----------------------------------------------------------------------------
(* analyze_error, step by step *)

\* l.212-229: the prompt is built and the request sent to the provider
SendToProvider(t) ==
    /\ pc' = [pc EXCEPT ![t] = "provider"]
    /\ provider_calls' = [provider_calls EXCEPT ![t] = @ + 1]

\* l.194-201: the enabled check, the cache key, the choice of lookup or provider.
\* Threads are interchangeable: a new call is taken by the lowest idle thread.
analyze_error(t, req) ==
    /\ pc[t] = "idle"
    /\ \A u \in Threads : u < t => pc[u] # "idle"
    /\ calls < MaxCalls
    /\ calls' = calls + 1
    /\ request' = [request EXCEPT ![t] = req]
    /\ IF ~is_enabled
       THEN /\ pc' = [pc EXCEPT ![t] = "Disabled"]
            /\ result' = [result EXCEPT ![t] =
                   Raised("AI features are not enabled or OpenAI client is not configured")]
            /\ UNCHANGED provider_calls
       ELSE IF req.force_refresh
       THEN /\ SendToProvider(t)
            /\ UNCHANGED result
       ELSE /\ pc' = [pc EXCEPT ![t] = "get_member"]
            /\ UNCHANGED <<result, provider_calls>>
    /\ UNCHANGED <<server_vars, args, returned, response_text, enabled, client, cache_enabled, now, _analysis_cache, cache_entry,
                   provider_failed, own_ops, written>>

\* _get_cached_analysis l.64-68: cache switch and membership test; a miss goes
\* on to the provider
get_cached_member(t) ==
    /\ pc[t] = "get_member"
    /\ IF cache_enabled /\ _analysis_cache[cache_key(t)] # None
       THEN /\ pc' = [pc EXCEPT ![t] = "get_read"]
            /\ UNCHANGED provider_calls
       ELSE SendToProvider(t)
    /\ UNCHANGED <<server_vars, args, returned, response_text, enabled, client, cache_enabled, now, _analysis_cache, request, cache_entry,
                   result, provider_failed, own_ops, written, calls>>

\* _get_cached_analysis l.70: the subscript raises KeyError when the key is gone
get_cached_read(t) ==
    /\ pc[t] = "get_read"
    /\ IF _analysis_cache[cache_key(t)] = None
       THEN /\ pc' = [pc EXCEPT ![t] = "Crashed"]
            /\ result' = [result EXCEPT ![t] = Raised("KeyError")]
            /\ UNCHANGED cache_entry
       ELSE /\ pc' = [pc EXCEPT ![t] = "get_age"]
            /\ cache_entry' = [cache_entry EXCEPT ![t] = _analysis_cache[cache_key(t)]]
            /\ UNCHANGED result
    /\ UNCHANGED <<server_vars, args, returned, response_text, enabled, client, cache_enabled, now, _analysis_cache, request,
                   provider_calls, provider_failed, own_ops, written, calls>>

\* _get_cached_analysis l.71-81 and analyze_error l.203-208: the age check; an
\* unexpired entry is returned with cached = True
get_cached_age(t) ==
    /\ pc[t] = "get_age"
    /\ IF IsExpired(cache_entry[t].created_at, now)
       THEN /\ pc' = [pc EXCEPT ![t] = "get_del"]
            /\ UNCHANGED result
       ELSE /\ pc' = [pc EXCEPT ![t] = "Done"]
            /\ result' = [result EXCEPT ![t] = Returned(CachedResult(cache_entry[t].response))]
    /\ UNCHANGED <<server_vars, args, returned, response_text, enabled, client, cache_enabled, now, _analysis_cache, request, cache_entry,
                   provider_calls, provider_failed, own_ops, written, calls>>

\* _get_cached_analysis l.78-79: del raises KeyError when the key is gone;
\* otherwise the lookup returns None and the call goes on to the provider
get_cached_del(t) ==
    /\ pc[t] = "get_del"
    /\ IF _analysis_cache[cache_key(t)] = None
       THEN /\ pc' = [pc EXCEPT ![t] = "Crashed"]
            /\ result' = [result EXCEPT ![t] = Raised("KeyError")]
            /\ UNCHANGED <<_analysis_cache, own_ops, provider_calls>>
       ELSE /\ SendToProvider(t)
            /\ _analysis_cache' = DeleteEntry(_analysis_cache, cache_key(t))
            /\ own_ops' = [own_ops EXCEPT ![t] = @ \cup {"del"}]
            /\ UNCHANGED result
    /\ UNCHANGED <<server_vars, args, returned, response_text, enabled, client, cache_enabled, now, request, cache_entry,
                   provider_failed, written, calls>>

\* _store_cached_analysis l.85-91
\* variant of _store_cached_analysis: the switch of l.85 is not looked at
_store_cached_analysis_always(t, response) ==
    /\ _analysis_cache' = StoreEntry(_analysis_cache, cache_key(t), response, now)
    /\ own_ops' = [own_ops EXCEPT ![t] = @ \cup {"put"}]
    /\ written' = written \cup {<<cache_key(t), [response |-> response, created_at |-> now]>>}

_store_cached_analysis(t, response) ==
    IF cache_enabled
    THEN /\ _analysis_cache' = StoreEntry(_analysis_cache, cache_key(t), response, now)
         /\ own_ops' = [own_ops EXCEPT ![t] = @ \cup {"put"}]
         /\ written' = written \cup
                {<<cache_key(t), [response |-> response, created_at |-> now]>>}
    ELSE UNCHANGED <<_analysis_cache, own_ops, written>>

\* l.232-250: the provider answers; the reply is parsed, full_response is built
\* and stored, and the call returns it
provider_ok(t, reply) ==
    /\ pc[t] = "provider"
    /\ response_text' = [response_text EXCEPT ![t] = reply]
    /\ LET full_response == BuildFullResponse(_parse_ai_response(reply), now)
       IN /\ _store_cached_analysis(t, full_response)
          /\ result' = [result EXCEPT ![t] = Returned(full_response)]
    /\ pc' = [pc EXCEPT ![t] = IF ParseSucceeds(reply) THEN "Done" ELSE "FallbackDone"]
    /\ UNCHANGED <<server_vars, args, returned, enabled, client, cache_enabled, now, request, cache_entry,
                   provider_calls, provider_failed, calls>>

\* variant of provider_fail: a placeholder result is cached before raising
provider_fail_caching(t) ==
    /\ pc[t] = "provider"
    /\ pc' = [pc EXCEPT ![t] = "ErrorDone"]
    /\ provider_failed' = [provider_failed EXCEPT ![t] = TRUE]
    /\ result' = [result EXCEPT ![t] = Raised("Failed to analyze error")]
    /\ _store_cached_analysis(t, BuildFullResponse(
            [summary |-> "", root_cause |-> "", suggested_fix |-> ""], now))
    /\ UNCHANGED <<server_vars, args, returned, response_text, enabled, client, cache_enabled, now, request, cache_entry,
                   provider_calls, calls>>

\* l.252-254: the provider call raises; analyze_error raises ValueError
provider_fail(t) ==
    /\ pc[t] = "provider"
    /\ pc' = [pc EXCEPT ![t] = "ErrorDone"]
    /\ provider_failed' = [provider_failed EXCEPT ![t] = TRUE]
    /\ result' = [result EXCEPT ![t] = Raised("Failed to analyze error")]
    /\ UNCHANGED <<server_vars, args, returned, response_text, enabled, client, cache_enabled, now, _analysis_cache, request, cache_entry,
                   provider_calls, own_ops, written, calls>>

\* positions inside _get_cached_analysis
InLookup == {"get_member", "get_read", "get_age", "get_del"}

\* positions of a call that has not ended: in the lookup, or waiting for the provider
Running == InLookup \cup {"provider"}

\* how a call ends: the three terminal states of the gate, the FeatureDisabled
\* failure of l.195, and the KeyError that l.70 and l.78 let escape
Terminal == {"Done", "FallbackDone", "ErrorDone", "Disabled", "Crashed"}

\* the caller takes the outcome; the thread is free for the next call
finish(t) ==
    /\ pc[t] \in Terminal
    /\ pc' = [pc EXCEPT ![t] = "idle"]
    /\ request' = [request EXCEPT ![t] = None]
    /\ cache_entry' = [cache_entry EXCEPT ![t] = None]
    /\ response_text' = [response_text EXCEPT ![t] = None]
    /\ result' = [result EXCEPT ![t] = None]
    /\ provider_calls' = [provider_calls EXCEPT ![t] = 0]
    /\ provider_failed' = [provider_failed EXCEPT ![t] = FALSE]
    /\ own_ops' = [own_ops EXCEPT ![t] = {}]
    /\ UNCHANGED <<server_vars, args, returned, enabled, client, cache_enabled, now, _analysis_cache, written, calls>>

\* the clock.  The statements of a lookup take no time at the scale of the
\* clock; time passes between calls and while a call waits for the provider.
Tick(d) ==
    /\ now + d <= MaxTime
    /\ \A t \in Threads : pc[t] \notin InLookup
    /\ now' = now + d
    /\ UNCHANGED <<server_vars, args, returned, response_text, enabled, client, cache_enabled, _analysis_cache, pc, request,
                   cache_entry, result, provider_calls, provider_failed, own_ops,
                   written, calls>>

Next ==
    \/ \E t \in Threads, req \in Requests : analyze_error(t, req)
    \/ \E t \in Threads : get_cached_member(t)
    \/ \E t \in Threads : get_cached_read(t)
    \/ \E t \in Threads : get_cached_age(t)
    \/ \E t \in Threads : get_cached_del(t)
    \/ \E t \in Threads, reply \in Replies : provider_ok(t, reply)
    \/ \E t \in Threads : provider_fail(t)
    \/ \E t \in Threads : finish(t)
    \/ \E d \in TickSteps : Tick(d)

Spec == Init /\ [][Next]_vars

-----------------------------------------------------------------------------
(***************************************************************************)
(* Part 2: the functions of the ingestion path, backend/main.py and        *)
(* backend/security.py, applied to JSON payloads.                          *)
(*                                                                         *)
(* A JSON value is a record tagged by its Python type:                     *)
(*   null, int, str, list (items: a sequence), dict (map: keys to values). *)
(* A str carries its text s; a str whose text is a date and time carries   *)
(* the form of the text and the wall-clock time it spells, in              *)
(* milliseconds.  A datetime is its wall-clock time in milliseconds and    *)
(* whether it is timezone-aware (the offsets used are all +00:00).         *)
(***************************************************************************)

JNull == [kind |-> "null"]
JInt(n) == [kind |-> "int", n |-> n]
JStr(s) == [kind |-> "str", s |-> s]
JList(items) == [kind |-> "list", items |-> items]
JDict(map) == [kind |-> "dict", map |-> map]
EmptyMap == [k \in {} |-> JNull]

\* a str spelling a date and time.  Forms:
\*   "frac_z"  2024-01-01T00:00:01.000Z   (what the SDK's add_step writes)
\*   "offset"  2024-01-01T00:00:01Z or ...+00:00
\*   "plain"   2024-01-01T00:00:01
\*   "space"   2024-01-01 00:00:01
\*   "iso"     2024-01-01T00:00:01.000000  (datetime.isoformat())
JTime(form, wall) == [kind |-> "str", form |-> form, wall |-> wall]

IsTimeText(v) == v.kind = "str" /\ "form" \in DOMAIN v

\* a str of the shape  <s><kw><sep><secret>, as in "login password=hunter2":
\* kw is a word of one of SENSITIVE_PATTERNS (security.py l.46-52), sep is : or =, and
\* secret a run of characters other than quote, blank, comma and brace
JSecret(s, kw, sep, secret) ==
    [kind |-> "str", s |-> s, kw |-> kw, sep |-> sep, secret |-> secret]

HasSecret(v) == v.kind = "str" /\ "kw" \in DOMAIN v

\* dict.get(key, default)
Get(d, key, default) == IF key \in DOMAIN d.map THEN d.map[key] ELSE default

\* bool(value)
Truthy(v) ==
    CASE v.kind = "null" -> FALSE
      [] v.kind = "int"  -> v.n # 0
      [] v.kind = "str"  -> IsTimeText(v) \/ HasSecret(v) \/ v.s # ""
      [] v.kind = "list" -> v.items # <<>>
      [] v.kind = "dict" -> DOMAIN v.map # {}
      [] OTHER -> TRUE

\* a or b
Or(a, b) == IF Truthy(a) THEN a ELSE b

Naive(wall) == [wall |-> wall, aware |-> FALSE]
Aware(wall) == [wall |-> wall, aware |-> TRUE]

\* main.py l.268-288.  Of the strptime formats, "%Y-%m-%dT%H:%M:%S.%fZ" takes
\* the Z as a literal and gives a naive datetime; "%Y-%m-%dT%H:%M:%S%z" gives
\* an aware one; the last two and fromisoformat give naive ones for the forms
\* above.  A number is taken as Unix seconds (the server's zone being UTC).
\* Anything else is answered by the current time.
parse_timestamp(value, t_now) ==
    CASE value.kind = "int" -> Naive(value.n * 1000)
      [] value.kind = "str" /\ IsTimeText(value) ->
            IF value.form = "offset" THEN Aware(value.wall) ELSE Naive(value.wall)
      [] OTHER -> Naive(t_now)

\* datetime.isoformat()
isoformat(dt) == JTime(IF dt.aware THEN "offset" ELSE "iso", dt.wall)

\* int((end_time - start_time).total_seconds() * 1000); the subtraction raises
\* TypeError "can't subtract offset-naive and offset-aware datetimes"
Minus(end_time, start_time) ==
    IF end_time.aware = start_time.aware
    THEN Returned(end_time.wall - start_time.wall)
    ELSE Raised("TypeError")

\* the field types of the pydantic model AgentStep, main.py l.105-115
\* (str: step_type, content; Optional[str]: error; Optional[int]: duration_ms,
\* tokens_used; Optional[Dict]: metadata, inputs, outputs)
AgentStepValid(step_type, content, metadata, duration, tokens, error) ==
    /\ step_type.kind = "str"
    /\ content.kind = "str"
    /\ metadata.kind \in {"dict", "null"}
    /\ duration.kind \in {"int", "null"}
    /\ tokens.kind \in {"int", "null"}
    /\ error.kind \in {"str", "null"}

\* str(uuid.uuid4()) drawn for step i of a trace (l.106): a str unlike any
\* other drawn and unlike any a client sends
uuid4(trace_id, i) == [kind |-> "str", uuid |-> <<trace_id, i>>]

\* str(step_data)
StrOf(value) == [kind |-> "str", s |-> "str(step_data)", of |-> value]

\* l.324-325, 334-335: a value that is no dict is wrapped
AsDict(value) == IF value.kind = "dict" THEN value ELSE JDict([raw |-> value])

\* main.py l.308-338: one raw step.  The AgentStep is returned; a step that is
\* no mapping raises AttributeError (step_data.get) and a field the model
\* rejects ValidationError.
ParseStep(step_data, id, t_now) ==
    IF step_data.kind # "dict"
    THEN Raised("AttributeError")
    ELSE LET step_type == Get(step_data, "type", Get(step_data, "step_type", JStr("unknown")))
             content   == Get(step_data, "content", Get(step_data, "message", StrOf(step_data)))
             metadata  == Get(step_data, "metadata", JDict(EmptyMap))
             duration  == Get(step_data, "duration_ms", Get(step_data, "duration", JNull))
             tokens    == Get(step_data, "tokens_used", Get(step_data, "tokens", JNull))
             error     == Get(step_data, "error", Get(step_data, "error_message", JNull))
             inputs    == Get(step_data, "inputs", Get(step_data, "input", JDict(EmptyMap)))
             outputs   == Get(step_data, "outputs", Get(step_data, "output", JDict(EmptyMap)))
             timestamp_value == Or(Get(step_data, "timestamp", JNull), Get(step_data, "time", JNull))
             timestamp == IF Truthy(timestamp_value)
                          THEN parse_timestamp(timestamp_value, t_now)
                          ELSE Naive(t_now)
         IN IF ~AgentStepValid(step_type, content, metadata, duration, tokens, error)
            THEN Raised("ValidationError")
            ELSE Returned([id          |-> id,
                           step_type   |-> step_type,
                           timestamp   |-> timestamp,
                           content     |-> content,
                           metadata    |-> metadata,
                           duration_ms |-> duration,
                           tokens_used |-> tokens,
                           error       |-> error,
                           inputs      |-> AsDict(inputs),
                           outputs     |-> AsDict(outputs)])

\* variant of Accumulate: the step is put in front of the steps so far
Accumulate_in_front(acc, step) ==
    [acc EXCEPT !.steps = <<step>> \o @]

\* variant of Accumulate: every step that carries an error value counts, the
\* empty text too
Accumulate_any_error(acc, step) ==
    [steps          |-> Append(acc.steps, step),
     total_duration |-> acc.total_duration,
     total_tokens   |-> IF Truthy(step.tokens_used)
                        THEN acc.total_tokens + step.tokens_used.n
                        ELSE acc.total_tokens,
     error_count    |-> IF step.error.kind # "null"
                        THEN acc.error_count + 1
                        ELSE acc.error_count]

\* l.340-348: steps.append(step) and the totals
Accumulate(acc, step) ==
    [steps          |-> Append(acc.steps, step),
     total_duration |-> IF Truthy(step.duration_ms)
                        THEN acc.total_duration + step.duration_ms.n
                        ELSE acc.total_duration,
     total_tokens   |-> IF Truthy(step.tokens_used)
                        THEN acc.total_tokens + step.tokens_used.n
                        ELSE acc.total_tokens,
     error_count    |-> IF Truthy(step.error)
                        THEN acc.error_count + 1
                        ELSE acc.error_count]

\* the loop of l.308-348 from raw step i on; acc holds steps, total_duration,
\* total_tokens and error_count so far
RECURSIVE ParseSteps(_, _, _, _, _)
ParseSteps(raw_steps, i, acc, trace_id, t_now) ==
    IF i > Len(raw_steps)
    THEN Returned(acc)
    ELSE LET parsed == ParseStep(raw_steps[i], uuid4(trace_id, i), t_now)
         IN IF parsed.kind = "raise"
            THEN parsed
            ELSE ParseSteps(raw_steps, i + 1, Accumulate(acc, parsed.value), trace_id, t_now)

\* l.298-306: raw_steps.  "steps" holding something that is no list fails in
\* the loop header or at the first step_data.get.
\* variant of RawStepsOf: what is neither a mapping nor a sequence holds no steps
RawStepsOf_lenient(log_data) ==
    IF log_data.kind = "dict"
    THEN LET raw == Get(log_data, "steps", JList(<<log_data>>))
         IN IF raw.kind = "list" THEN Returned(raw.items) ELSE Raised("TypeError")
    ELSE IF log_data.kind = "list"
    THEN Returned(log_data.items)
    ELSE Returned(<<>>)

RawStepsOf(log_data) ==
    IF log_data.kind = "dict"
    THEN LET raw == Get(log_data, "steps", JList(<<log_data>>))
         IN IF raw.kind = "list" THEN Returned(raw.items)
            ELSE IF raw.kind \in {"str", "dict"} /\ ~Truthy(raw) THEN Returned(<<>>)
            ELSE IF raw.kind \in {"str", "dict"} THEN Raised("AttributeError")
            ELSE Raised("TypeError")
    ELSE IF log_data.kind = "list"
    THEN Returned(log_data.items)
    ELSE Raised("ValueError: Invalid log format")

\* l.350-354: the delta of the last and the first timestamp replaces a total
\* of zero
TotalDuration(acc) ==
    IF acc.total_duration = 0 /\ Len(acc.steps) > 1
    THEN Minus(acc.steps[Len(acc.steps)].timestamp, acc.steps[1].timestamp)
    ELSE Returned(acc.total_duration)

\* main.py l.291-362.  trace_id is the uuid the AgentTrace model draws.
parse_agent_log(log_data, trace_id, t_now) ==
    LET raw_steps == RawStepsOf(log_data)
    IN IF raw_steps.kind = "raise"
       THEN raw_steps
       ELSE LET looped == ParseSteps(raw_steps.value, 1,
                             [steps |-> <<>>, total_duration |-> 0, total_tokens |-> 0,
                              error_count |-> 0], trace_id, t_now)
            IN IF looped.kind = "raise"
               THEN looped
               ELSE LET total_duration == TotalDuration(looped.value)
                    IN IF total_duration.kind = "raise"
                       THEN total_duration
                       ELSE Returned(
                              [id                |-> trace_id,
                               name              |-> JNull,
                               description       |-> JNull,
                               created_at        |-> Naive(t_now),
                               steps             |-> looped.value.steps,
                               metadata          |-> [parsed_at  |-> isoformat(Naive(t_now)),
                                                      step_count |-> Len(looped.value.steps)],
                               total_duration_ms |-> total_duration.value,
                               total_tokens      |-> looped.value.total_tokens,
                               error_count       |-> looped.value.error_count,
                               user_id           |-> JNull,
                               is_public         |-> FALSE])

-----------------------------------------------------------------------------
(* backend/security.py: the sanitizer *)

\* security.py l.103-113: re.sub(pattern, r'\1: [REDACTED]', text) for each
\* pattern; a text without a match is returned as it is
sanitize_sensitive_string(text) ==
    IF HasSecret(text)
    THEN JStr(text.s \o text.kw \o ": [REDACTED]")
    ELSE text

\* security.py l.85-101
RECURSIVE sanitize_trace_data(_)
sanitize_trace_data(data) ==
    IF data.kind # "dict"
    THEN data
    ELSE JDict([key \in DOMAIN data.map |->
            LET value == data.map[key]
            IN CASE value.kind = "dict" -> sanitize_trace_data(value)
                 [] value.kind = "list" ->
                       JList([i \in DOMAIN value.items |->
                                IF value.items[i].kind = "dict"
                                THEN sanitize_trace_data(value.items[i])
                                ELSE value.items[i]])
                 [] value.kind = "str" -> sanitize_sensitive_string(value)
                 [] OTHER -> value])

\* the deepest nesting of a payload given to the sanitizer
MaxDepth == 3

Scalars == {JStr("hello"), JSecret("login ", "password", "=", "hunter2"), JInt(7), JNull}

\* the values nested at most depth deep: a sequence or a mapping of one value
RECURSIVE Nested(_)
Nested(depth) ==
    IF depth = 0
    THEN Scalars
    ELSE Scalars \cup { JList(<<v>>) : v \in Nested(depth - 1) }
                 \cup { JDict([inputs |-> v]) : v \in Nested(depth - 1) }

SanitizerPayloads == { v \in Nested(MaxDepth) : v.kind \in {"dict", "list"} }

-----------------------------------------------------------------------------
(* Payloads *)

\* the longest batch of raw steps
MaxSteps == 2

\* marks a key the raw step does not carry
Absent == [kind |-> "absent"]

\* a raw step with the given values under type, content, duration_ms, timestamp
RawStep(type, content, duration_ms, timestamp) ==
    LET value(k) == CASE k = "type" -> type
                      [] k = "content" -> content
                      [] k = "duration_ms" -> duration_ms
                      [] k = "timestamp" -> timestamp
    IN JDict([k \in {k \in {"type", "content", "duration_ms", "timestamp"} :
                        value(k) # Absent} |-> value(k)])

DurationChoices == {Absent, JInt(0), JInt(5), JInt(120)}

TimestampChoices ==
    {Absent, JTime("plain", 0), JTime("plain", 1000), JTime("offset", 1000),
     JTime("frac_z", 2000), JStr("yesterday")}

\* steps whose fields are of the documented types
WellTypedSteps ==
    { RawStep(JStr("thought"), JStr("hello"), d, ts) :
          d \in DurationChoices, ts \in TimestampChoices }

\* steps with a null or wrongly typed field
IllTypedSteps ==
    { RawStep(JNull, JStr("hello"), Absent, Absent),
      RawStep(JStr("thought"), JNull, Absent, Absent),
      RawStep(JStr("thought"), JStr("hello"), JStr("fast"), Absent) }

RawSteps == WellTypedSteps \cup IllTypedSteps

Batches == UNION { [1..n -> RawSteps] : n \in 0..MaxSteps }

\* the three wire shapes: a mapping with a steps list, a bare sequence of
\* steps, a single step mapping
LogPayloads ==
    { JDict([steps |-> JList(b)]) : b \in Batches }
        \cup { JList(b) : b \in Batches }
        \cup RawSteps

\* payloads that are neither a mapping nor a sequence
ScalarPayloads == {JStr("abc"), JInt(42), JNull}

\* the keys every step of the payloads below carries unless said otherwise
Base == [type |-> JStr("thought"), content |-> JStr("hello")]

BaseWithout(keys) == [k \in DOMAIN Base \ keys |-> Base[k]]

\* l.310-321: the fields read under two keys, the primary one first
Synonyms ==
    << [field |-> "step_type",   primary |-> "type",        secondary |-> "step_type"],
       [field |-> "content",     primary |-> "content",     secondary |-> "message"],
       [field |-> "duration_ms", primary |-> "duration_ms", secondary |-> "duration"],
       [field |-> "tokens_used", primary |-> "tokens_used", secondary |-> "tokens"],
       [field |-> "error",       primary |-> "error",       secondary |-> "error_message"],
       [field |-> "inputs",      primary |-> "inputs",      secondary |-> "input"],
       [field |-> "outputs",     primary |-> "outputs",     secondary |-> "output"],
       [field |-> "timestamp",   primary |-> "timestamp",   secondary |-> "time"] >>

\* values sent under the primary key of a field, the empty ones included
PrimaryValues(field) ==
    CASE field = "step_type"   -> {JStr(""), JStr("thought")}
      [] field = "content"     -> {JStr(""), JStr("hello")}
      [] field = "duration_ms" -> {JInt(0), JInt(5)}
      [] field = "tokens_used" -> {JInt(0), JInt(3)}
      [] field = "error"       -> {JStr(""), JStr("ValueError: bad arg")}
      [] field = "inputs"      -> {JDict(EmptyMap), JDict([a |-> JStr("1")])}
      [] field = "outputs"     -> {JDict(EmptyMap), JDict([a |-> JStr("1")])}
      [] field = "timestamp"   -> {JInt(0), JStr(""), JTime("plain", 1000)}

\* the value sent under the secondary key
SecondaryValue(field) ==
    CASE field = "step_type"   -> JStr("action")
      [] field = "content"     -> JStr("note")
      [] field = "duration_ms" -> JInt(7)
      [] field = "tokens_used" -> JInt(9)
      [] field = "error"       -> JStr("KeyError: 'x'")
      [] field = "inputs"      -> JDict([b |-> JStr("2")])
      [] field = "outputs"     -> JDict([b |-> JStr("2")])
      [] field = "timestamp"   -> JTime("plain", 2000)

\* a step that carries both keys of a field, only the secondary one, neither
BothKeys(syn, value) ==
    JDict((syn.primary :> value) @@ (syn.secondary :> SecondaryValue(syn.field))
              @@ BaseWithout({syn.primary}))

OnlySecondary(syn) ==
    JDict((syn.secondary :> SecondaryValue(syn.field)) @@ BaseWithout({syn.primary}))

NeitherKey(syn) == JDict(BaseWithout({syn.primary}))

FieldSteps ==
    UNION { { BothKeys(Synonyms[f], v) : v \in PrimaryValues(Synonyms[f].field) }
                \cup { OnlySecondary(Synonyms[f]), NeitherKey(Synonyms[f]) }
            : f \in DOMAIN Synonyms }
        \cup { JDict(EmptyMap) }

\* steps with and without a token count and an error
TokenChoices == {Absent, JInt(0), JInt(3), JInt(8)}

ErrorChoices == {Absent, JNull, JStr(""), JStr("ValueError: bad arg")}

TokenStep(tokens_used, error) ==
    LET value(k) == IF k = "tokens_used" THEN tokens_used ELSE error
    IN JDict([k \in {k \in {"tokens_used", "error"} : value(k) # Absent} |-> value(k)]
                 @@ Base)

TokenSteps == { TokenStep(t, e) : t \in TokenChoices, e \in ErrorChoices }

TokenBatches == UNION { [1..n -> TokenSteps] : n \in 0..MaxSteps }

\* steps that bring their identifier, as those of the SDK's add_step do
\* (agent_trace_sdk.py l.55-66)
StepWithId(id, content) == JDict([id |-> JStr(id), type |-> JStr("thought"),
                                  content |-> JStr(content)])

IdBatches ==
    { <<StepWithId("step-1", "hello"), StepWithId("step-2", "world")>>,
      <<StepWithId("step-1", "hello"), JDict(Base)>>,
      <<JDict(Base), JDict(Base)>> }

MoreLogPayloads ==
    ScalarPayloads
        \cup FieldSteps
        \cup { JList(<<s>>) : s \in FieldSteps }
        \cup { JDict([steps |-> JList(b)]) : b \in TokenBatches }
        \cup { JList(b) : b \in IdBatches }

\* the time at which the function runs, in milliseconds
RunTime == 5000

-----------------------------------------------------------------------------
(* Requests for the fingerprint *)

\* a content of 501 characters that ends in the given one
LongContent(last) == [i \in 1..(ContentKeyLimit + 1) |-> IF i > ContentKeyLimit THEN last ELSE "x"]

FingerprintStepContexts ==
    { [step_type |-> "error", content |-> c, inputs |-> i, outputs |-> o] :
          c \in {<<"b", "o", "o", "m">>, LongContent("y"), LongContent("z")},
          i \in {<< <<"a", "1">>, <<"b", "2">> >>, << <<"b", "2">>, <<"a", "1">> >>,
                 << <<"a", "1">>, <<"b", "3">> >>},
          o \in {<<>>, << <<"a", "done">> >>} }
        \cup { [content |-> <<"b", "o", "o", "m">>, inputs |-> <<>>],
               [step_type |-> "action", content |-> <<"b", "o", "o", "m">>, inputs |-> <<>>] }

FingerprintTraceContexts ==
    { [trace_id |-> t, previous_steps |-> p] :
          t \in {"trace-1", "trace-2"}, p \in {<<>>, <<"earlier step">>} }

FingerprintRequests ==
    [error_message : {"ValueError: bad arg", "KeyError: 'x'"},
     step_context  : FingerprintStepContexts,
     trace_context : FingerprintTraceContexts]

-----------------------------------------------------------------------------
(* The prompt *)

\* the last n items of a list: s[-n:]
Last(s, n) == SubSeq(s, IF Len(s) > n THEN Len(s) - n + 1 ELSE 1, Len(s))

\* ai_service.py l.100-108: one line per previous step, of the last three
previous_context(previous_steps) ==
    [i \in DOMAIN Last(previous_steps, 3) |->
        [prev_type    |-> GetField(Last(previous_steps, 3)[i], "step_type", "unknown"),
         prev_content |-> Take(GetField(Last(previous_steps, 3)[i], "content", <<>>), 200)]]

\* ai_service.py l.93-128: the prompt is modelled by the values written into
\* its template.  json.dumps(inputs, indent=2) lists the items in insertion
\* order; empty inputs are written as "None".
_generate_prompt(error_message, step_context, trace_context) ==
    [error_message    |-> error_message,
     step_type        |-> GetField(step_context, "step_type", "unknown"),
     content          |-> Take(Take(GetField(step_context, "content", <<>>), 1000), 500),
     inputs           |-> IF GetField(step_context, "inputs", <<>>) = <<>>
                          THEN [text |-> "None", items |-> <<>>]
                          ELSE [text |-> "json",
                                items |-> GetField(step_context, "inputs", <<>>)],
     previous_context |-> previous_context(GetField(trace_context, "previous_steps", <<>>))]

PromptOf(req) == _generate_prompt(req.error_message, req.step_context, req.trace_context)

\* stored steps that precede the step analysed
EarlierSteps ==
    << [step_type |-> "thought", content |-> <<"p", "l", "a", "n">>],
       [step_type |-> "action",  content |-> <<"c", "a", "l", "l">>],
       [step_type |-> "observation", content |-> <<"o", "k">>],
       [step_type |-> "action",  content |-> <<"r", "e", "t", "r", "y">>] >>

\* the requests the handlers build for a step with an error: main.py
\* l.1065-1080 passes up to three previous steps, l.1141-1152 none
PromptRequests ==
    [error_message : {"ValueError: bad arg", "KeyError: 'x'"},
     step_context  : { [step_type |-> "action", content |-> <<"b", "o", "o", "m">>,
                        inputs |-> i, outputs |-> <<>>] :
                          i \in {<<>>, << <<"a", "1">> >>} },
     trace_context : { [trace_id |-> t, previous_steps |-> SubSeq(EarlierSteps, from, to)] :
                          t \in {"trace-1", "trace-2"},
                          from \in 1..2, to \in 0..Len(EarlierSteps) }]

-----------------------------------------------------------------------------
(* The service and the server at rest *)

\* no call of analyze_error under way
ThreadsAtRest ==
    /\ pc = [t \in Threads |-> "idle"]
    /\ request = [t \in Threads |-> None]
    /\ cache_entry = [t \in Threads |-> None]
    /\ response_text = [t \in Threads |-> None]
    /\ result = [t \in Threads |-> None]
    /\ provider_calls = [t \in Threads |-> 0]
    /\ provider_failed = [t \in Threads |-> FALSE]
    /\ own_ops = [t \in Threads |-> {}]
    /\ written = {}
    /\ calls = 0

\* the cache and gate at rest, the feature switched off
GateAtRest ==
    /\ enabled = FALSE
    /\ client = "None"
    /\ cache_enabled = FALSE
    /\ now = 0
    /\ _analysis_cache = [k \in Keys |-> None]
    /\ ThreadsAtRest

-----------------------------------------------------------------------------
(***************************************************************************)
(* Part 3: the HTTP handlers of backend/main.py.  Every handler is an      *)
(* async function without an await between its first and its last          *)
(* statement, so the event loop runs it as one step.  The rate limiter's   *)
(* verdict and the success of a database insert are inputs of the step.    *)
(***************************************************************************)

MAX_STEPS_PER_TRACE == 1000
MAX_STEP_CONTENT_LENGTH == 50000

TraceIdSet == { TraceIds[i] : i \in DOMAIN TraceIds }

\* the users the authentication service knows (l.208-236)
Users ==
    { [id |-> JStr("alice"), email |-> JStr("alice@example.com")],
      [id |-> JStr("bob"), email |-> JStr("bob@example.com")] }

\* the rows of the table "subscriptions" with status active: alice is on the
\* pro plan, bob has no subscription (subscription_service.py l.47-70)
SubscribedPlan(user_id) == IF user_id = JStr("alice") THEN "pro" ELSE "free"

\* subscription_service.py l.13-38, 90-101: check_feature_access(user_id,
\* "ai_features"); without database everybody is on the free plan
check_feature_access(user_id) ==
    LET plan_type == IF supabase THEN SubscribedPlan(user_id) ELSE "free"
    IN plan_type \in {"mini", "pro", "team"}

HttpError(status, detail) == [status |-> status, detail |-> detail]

\* subscription_service.py l.13-38: PLAN_LIMITS[plan]["traces_per_month"]
FREE_TRACES_PER_MONTH == 10

traces_per_month(plan_type) == IF plan_type = "free" THEN FREE_TRACES_PER_MONTH ELSE -1

\* subscription_service.py l.103-148: get_usage_stats(user_id)["trace_count"]
\* within one period
trace_count(user_id) == IF supabase THEN usage_limits[user_id.s] ELSE 0

\* subscription_service.py l.217-235
can_create_trace(user_id) ==
    LET plan_type == IF supabase THEN SubscribedPlan(user_id) ELSE "free"
        trace_limit == traces_per_month(plan_type)
    IN trace_limit = -1 \/ ~(trace_count(user_id) >= trace_limit)

\* subscription_service.py l.187-215
increment_usage(user_id) ==
    IF supabase
    THEN usage_limits' = [usage_limits EXCEPT ![user_id.s] = @ + 1]
    ELSE UNCHANGED usage_limits

\* main.py l.516-524 and 680-691: the HTTPException(403) for an exhausted
\* quota is raised inside the try block, HTTPException is an Exception, and
\* the except clause of that block logs it and goes on.  The value is the
\* exception that leaves the block.
QuotaCheck(current_user) ==
    LET raised == IF supabase /\ ~can_create_trace(current_user.id)
                  THEN Raised(HttpError(403, "You've reached your monthly limit"))
                  ELSE None
        caught == raised # None
    IN IF caught THEN None ELSE raised

\* a str of the given number of characters
JText(s, length) == [kind |-> "str", s |-> s, length |-> length]

\* len(str(value)) of a content; the texts without a stated length are short
ContentLength(value) == IF "length" \in DOMAIN value THEN value.length ELSE 5

\* security.py l.201-214
validate_json_structure(data) ==
    /\ data.kind = "dict"
    /\ {"steps", "trace", "log"} \cap DOMAIN data.map # {}

\* security.py l.115-138; the payloads are all far below MAX_TRACE_SIZE
validate_trace_size(data) ==
    \/ data.kind # "dict"
    \/ "steps" \notin DOMAIN data.map
    \/ /\ data.map.steps.kind = "list"
       /\ Len(data.map.steps.items) <= MAX_STEPS_PER_TRACE
       /\ \A i \in DOMAIN data.map.steps.items :
              LET step == data.map.steps.items[i]
              IN (step.kind = "dict" /\ "content" \in DOMAIN step.map) =>
                     ContentLength(step.map.content) <= MAX_STEP_CONTENT_LENGTH

\* main.py l.365-375, with the shareable_url of l.381
serialize_trace(trace) ==
    [id                |-> trace.id,
     name              |-> trace.name,
     description       |-> trace.description,
     created_at        |-> isoformat(trace.created_at),
     steps             |-> [i \in DOMAIN trace.steps |->
                               [trace.steps[i] EXCEPT !.timestamp = isoformat(@)]],
     metadata          |-> trace.metadata,
     total_duration_ms |-> trace.total_duration_ms,
     total_tokens      |-> trace.total_tokens,
     error_count       |-> trace.error_count,
     user_id           |-> trace.user_id,
     is_public         |-> trace.is_public,
     shareable_url     |-> <<"/trace/", trace.id>>]

\* main.py l.402-413
get_stored_trace(trace_id) ==
    IF trace_id \in TraceIdSet /\ in_memory_traces[trace_id] # None
    THEN in_memory_traces[trace_id]
    ELSE IF supabase /\ trace_id \in TraceIdSet
    THEN traces_table[trace_id]
    ELSE None

\* the uuid of the next trace: the first one not drawn yet
Drawn(id) == in_memory_traces[id] # None \/ traces_table[id] # None
NewTraceId == TraceIds[CHOOSE i \in DOMAIN TraceIds :
                  ~Drawn(TraceIds[i]) /\ \A j \in 1..(i - 1) : Drawn(TraceIds[j])]

\* l.441-443 and 502-508: a failure of the normalizer is answered with 400
ParsedOrRejected(trace) ==
    IF trace.kind = "raise"
    THEN Raised(HttpError(400, "Failed to parse trace"))
    ELSE trace

\* l.431-443 and 492-504: validation, sanitizer and normalizer of an upload.
\* The trace is returned, or the HTTP error raised.
ParseUpload(trace_data, allowed) ==
    IF ~allowed
    THEN Raised(HttpError(429, "Rate limit exceeded. Please try again later."))
    ELSE IF ~validate_json_structure(trace_data)
    THEN Raised(HttpError(400, "Invalid trace data structure"))
    ELSE IF ~validate_trace_size(trace_data)
    THEN Raised(HttpError(413, "Trace data too large"))
    ELSE ParsedOrRejected(parse_agent_log(sanitize_trace_data(trace_data), NewTraceId, RunTime))

\* the TraceResponse of an upload
UploadResponse(trace) ==
    [status |-> 200, body |-> [serialize_trace(trace) EXCEPT !.steps = trace.steps,
                                                             !.created_at = trace.created_at]]

\* l.444-447
GuestTrace(trace) ==
    [trace EXCEPT !.user_id = JNull,
                  !.is_public = FALSE,
                  !.metadata = [parsed_at       |-> @.parsed_at,
                                step_count      |-> @.step_count,
                                guest           |-> TRUE,
                                session_expires |-> "browser_close"]]

\* l.505-508
OwnedTrace(trace, current_user, is_public) ==
    [trace EXCEPT !.user_id = current_user.id,
                  !.is_public = is_public,
                  !.metadata = [parsed_at  |-> @.parsed_at,
                                step_count |-> @.step_count,
                                owner      |-> current_user.email]]

\* l.455-458: a guest trace is kept in memory only
store_guest_trace(trace) ==
    /\ in_memory_traces' = [in_memory_traces EXCEPT ![trace.id] = serialize_trace(trace)]
    /\ http_response' = UploadResponse(trace)

\* main.py l.378-399: the usage is counted before the row is inserted
store_trace(trace, insert_ok) ==
    /\ increment_usage(trace.user_id)
    /\ IF supabase /\ insert_ok
       THEN /\ traces_table' = [traces_table EXCEPT ![trace.id] = serialize_trace(trace)]
            /\ UNCHANGED in_memory_traces
       ELSE /\ in_memory_traces' = [in_memory_traces EXCEPT ![trace.id] = serialize_trace(trace)]
            /\ UNCHANGED traces_table
    /\ http_response' = UploadResponse(trace)

\* an upload turned away: the error is the response, nothing is stored
Rejected(parsed) ==
    /\ http_response' = parsed.error
    /\ UNCHANGED <<in_memory_traces, traces_table>>

GuestUploaded(parsed) ==
    IF parsed.kind = "raise"
    THEN Rejected(parsed)
    ELSE store_guest_trace(GuestTrace(parsed.value)) /\ UNCHANGED traces_table

Uploaded(parsed, quota, current_user, is_public, insert_ok) ==
    IF parsed.kind = "raise"
    THEN Rejected(parsed) /\ UNCHANGED usage_limits
    ELSE IF quota # None
    THEN Rejected(quota) /\ UNCHANGED usage_limits
    ELSE store_trace(OwnedTrace(parsed.value, current_user, is_public), insert_ok)

\* POST /api/traces/upload-guest, main.py l.424-483
upload_trace_guest(trace_data, allowed) ==
    /\ \E i \in DOMAIN TraceIds : ~Drawn(TraceIds[i])
    /\ http_request' = [op |-> "upload_trace_guest", trace_data |-> trace_data]
    /\ GuestUploaded(ParseUpload(trace_data, allowed))
    /\ UNCHANGED <<supabase, usage_limits, gate_vars, fn_vars, limiter_vars, usage_vars>>

\* POST /api/traces/upload, main.py l.485-553.  The rejection by
\* can_create_trace is raised inside a try whose except clause logs it and
\* goes on (l.516-524).
upload_trace(trace_data, current_user, is_public, allowed, insert_ok) ==
    /\ \E i \in DOMAIN TraceIds : ~Drawn(TraceIds[i])
    /\ http_request' = [op |-> "upload_trace", trace_data |-> trace_data,
                        current_user |-> current_user, is_public |-> is_public]
    /\ Uploaded(ParseUpload(trace_data, allowed), QuotaCheck(current_user), current_user,
                is_public, insert_ok)
    /\ UNCHANGED <<supabase, gate_vars, fn_vars, limiter_vars, usage_vars>>

\* datetime.fromisoformat of a text written by isoformat
fromisoformat(text) == IF text.form = "offset" THEN Aware(text.wall) ELSE Naive(text.wall)

\* isinstance(value, str)
IsStr(value) == "kind" \in DOMAIN value /\ value.kind = "str"

\* l.727-743: the trace may be viewed by the caller
is_guest(trace_data) == "guest" \in DOMAIN trace_data.metadata /\ trace_data.metadata.guest

MayView(trace_data, current_user) ==
    \/ is_guest(trace_data)
    \/ trace_data.is_public
    \/ ~Truthy(trace_data.user_id)
    \/ current_user # None /\ trace_data.user_id = current_user.id

\* l.752-757: the loop assigns the parsed timestamp to step_data["timestamp"],
\* and step_data is the dict held by the stored trace
WithParsedTimestamps(trace_data) ==
    [trace_data EXCEPT !.steps =
        [i \in DOMAIN trace_data.steps |->
            IF IsStr(trace_data.steps[i].timestamp)
            THEN [trace_data.steps[i] EXCEPT !.timestamp = fromisoformat(@)]
            ELSE trace_data.steps[i]]]

InMemory(trace_id) == trace_id \in TraceIdSet /\ in_memory_traces[trace_id] # None

\* GET /api/traces/{trace_id}, main.py l.719-778.  The 401 and the 403 are
\* raised inside the try, whose only clause, except Exception, turns them
\* into a 500.  The row of a database query is a fresh dict; the trace in
\* in_memory_traces is the stored dict itself.
get_trace(trace_id, current_user) ==
    /\ http_request' = [op |-> "get_trace", trace_id |-> trace_id,
                        current_user |-> current_user]
    /\ LET trace_data == get_stored_trace(trace_id)
       IN IF trace_data = None
          THEN /\ http_response' = HttpError(404, "Trace not found")
               /\ UNCHANGED in_memory_traces
          ELSE IF ~MayView(trace_data, current_user)
          THEN /\ http_response' = HttpError(500, "Failed to retrieve trace")
               /\ UNCHANGED in_memory_traces
          ELSE /\ http_response' =
                     [status |-> 200,
                      body |-> [WithParsedTimestamps(trace_data) EXCEPT
                                   !.created_at = fromisoformat(@)]]
               /\ in_memory_traces' =
                     IF InMemory(trace_id)
                     THEN [in_memory_traces EXCEPT ![trace_id] = WithParsedTimestamps(@)]
                     ELSE in_memory_traces
    /\ UNCHANGED <<supabase, usage_limits, traces_table, gate_vars, fn_vars, limiter_vars, usage_vars>>

\* the ids of the stored traces of a store that satisfy a condition, in the
\* order of their insertion
IdsWhere(store, Cond(_)) ==
    SelectSeq(TraceIds, LAMBDA id : store[id] # None /\ Cond(store[id]))

\* GET /api/traces, main.py l.780-823, with the default limit and offset
list_traces(current_user) ==
    /\ http_request' = [op |-> "list_traces", current_user |-> current_user]
    /\ LET OwnedByCaller(t) == t.user_id = current_user.id
           traces == IF current_user = None
                     THEN IdsWhere(in_memory_traces, is_guest)
                     ELSE IF supabase
                     THEN IdsWhere(traces_table, OwnedByCaller)
                     ELSE IdsWhere(in_memory_traces, OwnedByCaller)
       IN http_response' = [status |-> 200,
                            body |-> [traces |-> traces, total |-> Len(traces)]]
    /\ UNCHANGED <<supabase, usage_limits, in_memory_traces, traces_table, gate_vars, fn_vars, limiter_vars, usage_vars>>

\* query_lower in text.lower(): the queries asked are whole contents of the
\* steps uploaded, and no other text of those steps contains them
Contains(text, q) == text.kind = "str" /\ "s" \in DOMAIN text /\ text.s = q

\* GET /api/search, main.py l.825-897
search_traces(q, current_user) ==
    /\ http_request' = [op |-> "search_traces", q |-> q, current_user |-> current_user]
    /\ LET store == IF supabase THEN traces_table ELSE in_memory_traces
           OwnedByCaller(t) == t.user_id = current_user.id
           Matches(t) == OwnedByCaller(t) /\ \E i \in DOMAIN t.steps :
                             Contains(t.steps[i].content, q) \/ Contains(t.steps[i].error, q)
       IN http_response' =
              [status |-> 200,
               body |-> [results |-> IF q = "" THEN <<>> ELSE IdsWhere(store, Matches)]]
    /\ UNCHANGED <<supabase, usage_limits, in_memory_traces, traces_table, gate_vars, fn_vars, limiter_vars, usage_vars>>

\* a variant of the ownership test that lets anybody change an unowned trace
IsOwner_or_unowned(trace_data, current_user) ==
    trace_data.user_id = JNull \/ trace_data.user_id = current_user.id

\* l.996 and 1005: the negation of user_id != current_user.id
IsOwner(trace_data, current_user) == trace_data.user_id = current_user.id

\* PUT /api/traces/{trace_id}/visibility, main.py l.985-1015
update_trace_visibility(trace_id, is_public, current_user) ==
    /\ http_request' = [op |-> "update_trace_visibility", trace_id |-> trace_id,
                        is_public |-> is_public, current_user |-> current_user]
    /\ LET store == IF supabase THEN traces_table ELSE in_memory_traces
       IN IF trace_id \notin TraceIdSet \/ store[trace_id] = None
          THEN /\ http_response' = HttpError(404, "Trace not found")
               /\ UNCHANGED <<in_memory_traces, traces_table>>
          ELSE IF ~IsOwner(store[trace_id], current_user)
          THEN /\ http_response' = HttpError(403, "Not authorized to update this trace")
               /\ UNCHANGED <<in_memory_traces, traces_table>>
          ELSE /\ http_response' = [status |-> 200, body |-> [is_public |-> is_public]]
               /\ IF supabase
                  THEN /\ traces_table' = [traces_table EXCEPT ![trace_id].is_public = is_public]
                       /\ UNCHANGED in_memory_traces
                  ELSE /\ in_memory_traces' =
                             [in_memory_traces EXCEPT ![trace_id].is_public = is_public]
                       /\ UNCHANGED traces_table
    /\ UNCHANGED <<supabase, usage_limits, gate_vars, fn_vars, limiter_vars, usage_vars>>

-----------------------------------------------------------------------------
(* The analysis endpoints.  analyze_error is an ordinary function: called    *)
(* from a handler it runs to its end, provider call included, before the     *)
(* event loop takes up another request.                                      *)

DisabledDetail == "AI features are currently disabled"
SubscriptionDetail == "AI features require a Pro or Team subscription"
NotEnabledError == "AI features are not enabled or OpenAI client is not configured"
ProviderError == "Failed to analyze error"

\* the failure of client.chat.completions.create, and the replies it returns
ProviderFails == [fails |-> TRUE]
ProviderOutcomes == { Reply("none", TRUE, Body("object", Obj("A"))), ProviderFails }

\* ai_service.py l.62-81 on a cache: the response found, or None, and the
\* cache left behind
GetCachedAnalysis(cache, key, t_now) ==
    IF ~cache_enabled \/ cache[key] = None
    THEN [response |-> None, cache |-> cache]
    ELSE IF IsExpired(cache[key].created_at, t_now)
    THEN [response |-> None, cache |-> DeleteEntry(cache, key)]
    ELSE [response |-> cache[key].response, cache |-> cache]

\* ai_service.py l.210-254: the provider call after a miss
CallProvider(cache, key, t_now, provider) ==
    IF provider = ProviderFails
    THEN [analysis |-> Raised(ProviderError), cache |-> cache]
    ELSE [analysis |-> Returned(BuildFullResponse(_parse_ai_response(provider), t_now)),
          cache    |-> IF cache_enabled
                       THEN StoreEntry(cache, key,
                                       BuildFullResponse(_parse_ai_response(provider), t_now),
                                       t_now)
                       ELSE cache]

\* ai_service.py l.200-208: what the lookup found is returned with the flag
\* cached, else the provider is called
AfterLookup(looked, key, t_now, provider) ==
    IF looked.response # None
    THEN [analysis |-> Returned(CachedResult(looked.response)), cache |-> looked.cache]
    ELSE CallProvider(looked.cache, key, t_now, provider)

\* ai_service.py l.175-254 run from its first to its last statement: what it
\* returns or raises, and the cache it leaves
AnalyzeError(cache, req, t_now, provider) ==
    IF ~is_enabled
    THEN [analysis |-> Raised(NotEnabledError), cache |-> cache]
    ELSE IF req.force_refresh
    THEN CallProvider(cache, KeyOf(req), t_now, provider)
    ELSE AfterLookup(GetCachedAnalysis(cache, KeyOf(req), t_now), KeyOf(req), t_now, provider)

\* the items of a dict in the order of their keys
Items(d) ==
    LET keys == SelectSeq(Alphabet, LAMBDA k : k \in DOMAIN d.map)
    IN [j \in DOMAIN keys |-> <<keys[j], d.map[keys[j]]>>]

\* l.1065-1080 and 1141-1152: the arguments built from a stored step; a text
\* shorter than the 500 characters of the key is one piece
StepRequest(trace_id, step, previous_steps, force_refresh) ==
    [error_message |-> step.error.s,
     step_context  |-> [step_type |-> step.step_type.s,
                        content   |-> <<step.content.s>>,
                        inputs    |-> Items(step.inputs),
                        outputs   |-> Items(step.outputs)],
     trace_context |-> [trace_id |-> trace_id, previous_steps |-> previous_steps],
     force_refresh |-> force_refresh]

\* l.1213-1223
QuickRequest(error_message) ==
    [error_message |-> error_message,
     step_context  |-> [step_type |-> "error",
                        content   |-> <<"Quick error analysis">>,
                        inputs    |-> <<>>],
     trace_context |-> [trace_id |-> "quick-analysis", previous_steps |-> <<>>],
     force_refresh |-> FALSE]

\* the keys of the analyses the server can be asked for
ServerKeys ==
    { KeyOf(StepRequest(id, [step_type |-> JStr("action"), content |-> JStr("boom"),
                             error |-> JStr("ValueError: bad arg"),
                             inputs |-> JDict(EmptyMap), outputs |-> JDict(EmptyMap)],
                        <<>>, FALSE)) : id \in TraceIdSet }
    \cup { KeyOf(QuickRequest("ValueError: bad arg")) }

\* l.1049-1063: the step with the id, which must have an error
StepOf(steps, step_id) ==
    IF \A i \in DOMAIN steps : steps[i].id # step_id
    THEN Raised(HttpError(404, "Step not found"))
    ELSE IF ~Truthy(steps[CHOOSE i \in DOMAIN steps : steps[i].id = step_id].error)
    THEN Raised(HttpError(400, "Step does not have an error to analyze"))
    ELSE Returned(CHOOSE i \in DOMAIN steps : steps[i].id = step_id)

\* l.1038-1047 and 1114-1123
FindTrace(trace_data, current_user, denied) ==
    IF trace_data = None
    THEN Raised(HttpError(404, "Trace not found"))
    ELSE IF Truthy(trace_data.user_id) /\ trace_data.user_id # current_user.id
    THEN Raised(HttpError(403, denied))
    ELSE Returned(trace_data.steps)

\* l.1076-1077: steps[max(0, step_index - 3):step_index]
PreviousSteps(steps, i) == SubSeq(steps, IF i > 3 THEN i - 3 ELSE 1, i - 1)

\* the answer to a request that got as far as analyze_error: the analysis is
\* kept next to the status a client sees
Answered(outcome, error_status, error_detail) ==
    /\ _analysis_cache' = outcome.cache
    /\ http_response' =
          IF outcome.analysis.kind = "raise"
          THEN [status |-> error_status, detail |-> error_detail,
                analysis |-> outcome.analysis]
          ELSE [status |-> 200, body |-> outcome.analysis.value,
                analysis |-> outcome.analysis]

\* a request answered before analyze_error is called
Refused(error) ==
    /\ http_response' = error
    /\ UNCHANGED _analysis_cache

\* l.1083-1096: except ValueError as e: 503 with str(e)
AnswerOrUnavailable(outcome) ==
    Answered(outcome, 503, IF outcome.analysis.kind = "raise"
                           THEN outcome.analysis.error ELSE "")

\* l.1155-1164: except ValueError: 404
AnswerOrNotFound(outcome) ==
    Answered(outcome, 404, "No cached analysis found. Use POST endpoint to generate analysis.")

\* l.1049-1091
AnalyzeStep(steps, found, trace_id, force_refresh, provider) ==
    IF found.kind = "raise"
    THEN Refused(found.error)
    ELSE AnswerOrUnavailable(
             AnalyzeError(_analysis_cache,
                          StepRequest(trace_id, steps[found.value],
                                      PreviousSteps(steps, found.value), force_refresh),
                          now, provider))

\* l.1125-1164
LookUpStep(steps, found, trace_id, provider) ==
    IF found.kind = "raise"
    THEN Refused(found.error)
    ELSE AnswerOrNotFound(
             AnalyzeError(_analysis_cache,
                          StepRequest(trace_id, steps[found.value], <<>>, FALSE),
                          now, provider))

AnalyzeStepOf(trace, step_id, trace_id, force_refresh, provider) ==
    IF trace.kind = "raise"
    THEN Refused(trace.error)
    ELSE AnalyzeStep(trace.value, StepOf(trace.value, step_id), trace_id,
                     force_refresh, provider)

LookUpStepOf(trace, step_id, trace_id, provider) ==
    IF trace.kind = "raise"
    THEN Refused(trace.error)
    ELSE LookUpStep(trace.value, StepOf(trace.value, step_id), trace_id, provider)

\* POST /api/traces/{trace_id}/steps/{step_id}/ai-analysis, main.py l.1017-1099
request_ai_analysis(trace_id, step_id, force_refresh, current_user, provider) ==
    /\ http_request' = [op |-> "request_ai_analysis", trace_id |-> trace_id,
                        step_id |-> step_id, force_refresh |-> force_refresh,
                        current_user |-> current_user]
    /\ IF ~check_feature_access(current_user.id)
       THEN Refused(HttpError(403, SubscriptionDetail))
       ELSE IF ~is_enabled
       THEN Refused(HttpError(503, DisabledDetail))
       ELSE AnalyzeStepOf(FindTrace(get_stored_trace(trace_id), current_user,
                                    "Not authorized to analyze this trace"),
                          step_id, trace_id, force_refresh, provider)
    /\ UNCHANGED <<server_store, fn_vars, gate_rest, limiter_vars, usage_vars>>

\* GET /api/traces/{trace_id}/steps/{step_id}/ai-analysis, main.py l.1101-1171
get_ai_analysis(trace_id, step_id, current_user, provider) ==
    /\ http_request' = [op |-> "get_ai_analysis", trace_id |-> trace_id,
                        step_id |-> step_id, current_user |-> current_user]
    /\ IF ~is_enabled
       THEN Refused(HttpError(503, DisabledDetail))
       ELSE LookUpStepOf(FindTrace(get_stored_trace(trace_id), current_user,
                                   "Not authorized to view this trace"),
                         step_id, trace_id, provider)
    /\ UNCHANGED <<server_store, fn_vars, gate_rest, limiter_vars, usage_vars>>

\* POST /api/ai/quick-analysis, main.py l.1187-1240
quick_error_analysis(error_message, current_user, provider) ==
    /\ http_request' = [op |-> "quick_error_analysis", error_message |-> error_message,
                        current_user |-> current_user]
    /\ IF ~check_feature_access(current_user.id)
       THEN Refused(HttpError(403, SubscriptionDetail))
       ELSE IF ~is_enabled
       THEN Refused(HttpError(503, DisabledDetail))
       ELSE IF error_message = ""
       THEN Refused(HttpError(400, "Error message is required"))
       ELSE AnswerOrUnavailable(
                AnalyzeError(_analysis_cache, QuickRequest(error_message), now, provider))
    /\ UNCHANGED <<server_store, fn_vars, gate_rest, limiter_vars, usage_vars>>

-----------------------------------------------------------------------------
(* The requests the server receives *)

PlainStep ==
    JDict([type |-> JStr("thought"), content |-> JStr("hello"),
           timestamp |-> JTime("frac_z", 1000)])

ErrorStep ==
    JDict([type |-> JStr("action"), content |-> JStr("boom"),
           error |-> JStr("ValueError: bad arg"), timestamp |-> JTime("frac_z", 2000)])

\* a mapping with a steps list, a bare sequence of steps (what the SDK's
\* upload_trace sends, agent_trace_sdk.py l.194-208), a single step mapping,
\* and a mapping with a step whose content is over the limit
UploadPayloads ==
    { JDict([steps |-> JList(<<PlainStep, ErrorStep>>)]),
      JList(<<PlainStep, ErrorStep>>),
      ErrorStep,
      JDict([steps |-> JList(<<JDict([type |-> JStr("thought"),
                                      content |-> JText("lorem", MAX_STEP_CONTENT_LENGTH + 1)])>>)]) }

\* the callers: the users, and None for a request without credentials
Callers == Users \cup {None}

RequestedIds == TraceIdSet \cup {"unknown"}

Queries == {"", "boom", "hello"}

\* the steps asked for: the plain one, the one with the error, and none
StepNumbers == 1..3

\* the usage of the period when the server starts: the free-plan user has one
\* upload left, or none
UsageAtStart(database) ==
    IF database
    THEN { [user \in UserNames |-> IF user = "bob" THEN n ELSE 0] :
              n \in {FREE_TRACES_PER_MONTH - 1, FREE_TRACES_PER_MONTH} }
    ELSE { [user \in UserNames |-> 0] }

ServerInit ==
    /\ \E api_key_set \in BOOLEAN, ai_enabled \in BOOLEAN :
          /\ enabled = ai_enabled
          /\ client = IF api_key_set /\ ai_enabled THEN "OpenAI" ELSE "None"
    /\ cache_enabled \in BOOLEAN
    /\ now = 0
    /\ _analysis_cache = [k \in ServerKeys |-> None]
    /\ ThreadsAtRest
    /\ args = None
    /\ returned = None
    /\ LimiterAtRest
    /\ UsageAtRest
    /\ supabase \in BOOLEAN
    /\ usage_limits \in UsageAtStart(supabase)
    /\ in_memory_traces = [id \in TraceIdSet |-> None]
    /\ traces_table = [id \in TraceIdSet |-> None]
    /\ http_request = None
    /\ http_response = None

ServerNext ==
    \/ \E trace_data \in UploadPayloads, allowed \in BOOLEAN :
          upload_trace_guest(trace_data, allowed)
    \/ \E trace_data \in UploadPayloads, current_user \in Users, is_public \in BOOLEAN,
          allowed \in BOOLEAN, insert_ok \in BOOLEAN :
          upload_trace(trace_data, current_user, is_public, allowed, insert_ok)
    \/ \E trace_id \in RequestedIds, current_user \in Callers :
          get_trace(trace_id, current_user)
    \/ \E current_user \in Callers : list_traces(current_user)
    \/ \E q \in Queries, current_user \in Users : search_traces(q, current_user)
    \/ \E trace_id \in RequestedIds, is_public \in BOOLEAN, current_user \in Users :
          update_trace_visibility(trace_id, is_public, current_user)
    \/ \E trace_id \in RequestedIds, step_no \in StepNumbers, force_refresh \in BOOLEAN,
          current_user \in Users, provider \in ProviderOutcomes :
          request_ai_analysis(trace_id, uuid4(trace_id, step_no), force_refresh,
                              current_user, provider)
    \/ \E trace_id \in RequestedIds, step_no \in StepNumbers,
          current_user \in Users, provider \in ProviderOutcomes :
          get_ai_analysis(trace_id, uuid4(trace_id, step_no), current_user, provider)
    \/ \E error_message \in {"", "ValueError: bad arg"}, current_user \in Users,
          provider \in ProviderOutcomes :
          quick_error_analysis(error_message, current_user, provider)

ServerSpec == ServerInit /\ [][ServerNext]_vars

-----------------------------------------------------------------------------
(* The rate limiter, security.py l.161-199.  is_allowed has no await and is  *)
(* called from the handlers on the event loop: it runs as one step.          *)

RATE_LIMIT_REQUESTS == 100
RATE_LIMIT_WINDOW == 3600

\* the instants, in seconds, at which requests arrive
Instants == <<0, 1800, 3600>>

\* a client that sends few requests, and how many
Background == "10.0.0.2"
MaxBackground == 1

\* l.171-175: the entries with req_time > window_start
Recent(times, time) ==
    LET window_start == time - RATE_LIMIT_WINDOW
        InWindow(req_time) == req_time > window_start
    IN SelectSeq(times, InWindow)

\* l.170-177: the list of the client after "Clean old entries"
Cleaned(client_ip, time) ==
    IF client_ip \in DOMAIN requests THEN Recent(requests[client_ip], time) ELSE <<>>

\* a variant of the test of l.180 that lets one request more through
OverLimit_exclusive(kept) == Len(kept) > RATE_LIMIT_REQUESTS

\* l.180
OverLimit(kept) == Len(kept) >= RATE_LIMIT_REQUESTS

\* l.180-185 and 195-199
Limited(client_ip, kept, time) ==
    IF OverLimit(kept)
    THEN /\ requests' = (client_ip :> kept) @@ requests
         /\ rate_response' =
               [client_ip |-> client_ip,
                outcome |-> Raised(HttpError(429, "Rate limit exceeded. Please try again later."))]
         /\ UNCHANGED window_log
    ELSE /\ requests' = (client_ip :> Append(kept, time)) @@ requests
         /\ rate_response' = [client_ip |-> client_ip, outcome |-> Returned(TRUE)]
         /\ window_log' = [window_log EXCEPT ![client_ip] = Append(@, time)]

\* check_rate_limit(request) for a request of client_ip, l.192-199
check_rate_limit(client_ip) ==
    /\ client_ip = Background => Len(Cleaned(client_ip, Instants[clock])) < MaxBackground
    /\ Limited(client_ip, Cleaned(client_ip, Instants[clock]), Instants[clock])
    /\ UNCHANGED <<clock, gate_vars, fn_vars, supabase, in_memory_traces, traces_table,
                   usage_limits, http_request, http_response, usage_vars>>

\* time passes to the next instant; the history forgets what has left the window
LimiterTick ==
    /\ clock < Len(Instants)
    /\ clock' = clock + 1
    /\ window_log' = [client_ip \in ClientIPs |->
                          Recent(window_log[client_ip], Instants[clock + 1])]
    /\ UNCHANGED <<requests, rate_response, gate_vars, fn_vars, supabase, in_memory_traces,
                   traces_table, usage_limits, http_request, http_response, usage_vars>>

LimiterInit ==
    /\ GateAtRest
    /\ ServerAtRest
    /\ args = None
    /\ returned = None

LimiterNext ==
    \/ \E client_ip \in ClientIPs : check_rate_limit(client_ip)
    \/ LimiterTick

LimiterSpec == LimiterInit /\ [][LimiterNext]_vars

-----------------------------------------------------------------------------
(* The usage counter under concurrent uploads.  increment_usage reads the    *)
(* row of the user and then writes trace_count + 1 in a second request to    *)
(* the database (subscription_service.py l.195-213); workers that share the  *)
(* database interleave between the two.                                       *)

\* the number of uploads started
MaxUploads == 4

\* the uploads started so far, completed or under way
Started ==
    LET Sum[S \in SUBSET UserNames] ==
            IF S = {} THEN 0
            ELSE LET user == CHOOSE u \in S : TRUE IN uploads[user] + Sum[S \ {user}]
    IN Sum[UserNames] + Cardinality({ w \in Workers : increments[w] # None })

\* store_trace l.384-387 calls increment_usage, whose select (l.195-201)
\* reads the row; a missing row counts as trace_count 0 (l.208-213)
increment_usage_select(w, user) ==
    /\ supabase
    /\ increments[w] = None
    /\ Started < MaxUploads
    /\ increments' = [increments EXCEPT ![w] =
                         [user |-> user, current_count |-> usage_limits[user]]]
    /\ UNCHANGED <<uploads, usage_limits, supabase, in_memory_traces, traces_table,
                   http_request, http_response, limiter_vars, gate_vars, fn_vars>>

\* the update of l.205-207 (or l.211-213) writes the count read plus one; the
\* upload then completes
increment_usage_update(w) ==
    /\ increments[w] # None
    /\ usage_limits' = [usage_limits EXCEPT ![increments[w].user] =
                           increments[w].current_count + 1]
    /\ uploads' = [uploads EXCEPT ![increments[w].user] = @ + 1]
    /\ increments' = [increments EXCEPT ![w] = None]
    /\ UNCHANGED <<supabase, in_memory_traces, traces_table, http_request, http_response,
                   limiter_vars, gate_vars, fn_vars>>

UsageInit ==
    /\ GateAtRest
    /\ LimiterAtRest
    /\ UsageAtRest
    /\ supabase = TRUE
    /\ usage_limits = [user \in UserNames |-> 0]
    /\ in_memory_traces = [id \in TraceIdSet |-> None]
    /\ traces_table = [id \in TraceIdSet |-> None]
    /\ http_request = None
    /\ http_response = None
    /\ args = None
    /\ returned = None

UsageNext ==
    \/ \E w \in Workers, user \in UserNames : increment_usage_select(w, user)
    \/ \E w \in Workers : increment_usage_update(w)

UsageSpec == UsageInit /\ [][UsageNext]_vars

-----------------------------------------------------------------------------
(* A function applied to one argument *)

Applications ==
    { [fn |-> "parse_agent_log", log_data |-> p] : p \in LogPayloads \cup MoreLogPayloads }
        \cup { [fn |-> "sanitize_trace_data", data |-> p] : p \in SanitizerPayloads }
        \cup { [fn |-> "_generate_cache_key", request |-> r] : r \in FingerprintRequests }
        \cup { [fn |-> "ParseUpload", trace_data |-> p] : p \in ScalarPayloads \cup UploadPayloads }
        \cup { [fn |-> "_generate_prompt", request |-> r, other |-> o] :
                   r \in PromptRequests, o \in PromptRequests }

FnInit ==
    /\ GateAtRest
    /\ ServerAtRest
    /\ args \in Applications
    /\ returned = None

call_parse_agent_log ==
    /\ args.fn = "parse_agent_log"
    /\ returned = None
    /\ returned' = parse_agent_log(args.log_data, "trace-1", RunTime)
    /\ UNCHANGED <<args, gate_vars, server_vars>>

call_sanitize_trace_data ==
    /\ args.fn = "sanitize_trace_data"
    /\ returned = None
    /\ returned' = Returned(sanitize_trace_data(args.data))
    /\ UNCHANGED <<args, gate_vars, server_vars>>

call_generate_cache_key ==
    /\ args.fn = "_generate_cache_key"
    /\ returned = None
    /\ returned' = Returned(KeyOf(args.request))
    /\ UNCHANGED <<args, gate_vars, server_vars>>

\* the key and the prompt of two requests
call_generate_prompt ==
    /\ args.fn = "_generate_prompt"
    /\ returned = None
    /\ returned' = Returned([key |-> KeyOf(args.request), prompt |-> PromptOf(args.request),
                             other_key |-> KeyOf(args.other),
                             other_prompt |-> PromptOf(args.other)])
    /\ UNCHANGED <<args, gate_vars, server_vars>>

\* the path of an upload from the validation to the normalizer, the rate
\* limiter letting it pass
call_ParseUpload ==
    /\ args.fn = "ParseUpload"
    /\ returned = None
    /\ returned' = ParseUpload(args.trace_data, TRUE)
    /\ UNCHANGED <<args, gate_vars, server_vars>>

FnNext ==
    \/ call_parse_agent_log
    \/ call_sanitize_trace_data
    \/ call_generate_cache_key
    \/ call_generate_prompt
    \/ call_ParseUpload

FnSpec == FnInit /\ [][FnNext]_vars

-----------------------------------------------------------------------------
(* Properties *)

\* thread t takes a step of kind "from"
Leaves(t, from) == pc[t] = from /\ pc'[t] # from

\* the three text fields of two results agree
SameAnalysis(a, b) ==
    /\ a.summary = b.summary
    /\ a.root_cause = b.root_cause
    /\ a.suggested_fix = b.suggested_fix

\* C1: TTL semantics of the lookup.  A lookup that computes the age of the entry
\* it read returns that entry when the age is at most 24 hours and does not
\* return it, but goes on to delete the key, when the age exceeds 24 hours;
\* after the delete step the key is absent; and a key leaves the cache only in
\* the delete step of a lookup that found its entry older than 24 hours.
C1_CacheTTL ==
    [][ /\ \A t \in Threads :
            /\ Leaves(t, "get_age") =>
                  LET age == now - cache_entry[t].created_at
                  IN /\ age <= 24 =>
                          /\ pc'[t] = "Done"
                          /\ result'[t].kind = "return"
                          /\ SameAnalysis(result'[t].value, cache_entry[t].response)
                     /\ age > 24 =>
                          /\ pc'[t] = "get_del"
                          /\ result'[t] = None
            /\ Leaves(t, "get_del") => _analysis_cache'[cache_key(t)] = None
        /\ \A k \in Keys :
            (_analysis_cache[k] # None /\ _analysis_cache'[k] = None) =>
                \E t \in Threads :
                    /\ Leaves(t, "get_del")
                    /\ cache_key(t) = k
                    /\ now - cache_entry[t].created_at > 24
      ]_vars

\* C1 witness: one thread holds a result served from an entry and the other
\* thread has later found the same entry expired and deleted it on its lookup
C1_Witness ==
    \E a \in Threads, b \in Threads :
        /\ pc[a] = "Done" /\ result[a].value.cached
        /\ pc[b] = "provider" /\ "del" \in own_ops[b]
        /\ cache_entry[a] = cache_entry[b]
        /\ now - cache_entry[b].created_at > 24
        /\ _analysis_cache[cache_key(b)] = None

ProviderErrorRaised == Raised("Failed to analyze error")

FeatureDisabledRaised ==
    Raised("AI features are not enabled or OpenAI client is not configured")

\* the reply is not valid JSON after fence stripping, or lacks a required field
Unusable(reply) ==
    \/ reply.body.kind # "object"
    \/ (reply.fence # "none" /\ ~reply.closed)
    \/ \E f \in {"summary", "root_cause", "suggested_fix"} : f \notin DOMAIN reply.body.obj

\* C2: repeat-request cache hit (caching enabled).  A call that returns a fresh
\* result leaves exactly that result in the cache under its fingerprint; a call
\* without forceRefresh goes to the lookup, which finds a present entry, reads
\* it and, when it is within the TTL, returns it with cached = TRUE and with
\* summary, root_cause and suggested_fix as stored; and every result served
\* from the cache is the result an earlier call with the same fingerprint stored.
C2_RepeatHit ==
    [][ \A t \in Threads :
          /\ (Leaves(t, "provider") /\ result'[t].kind = "return" /\ cache_enabled) =>
                _analysis_cache'[cache_key(t)].response = result'[t].value
          /\ (Leaves(t, "idle") /\ enabled /\ client # "None" /\ ~request'[t].force_refresh) =>
                pc'[t] = "get_member"
          /\ (Leaves(t, "get_member") /\ cache_enabled /\ _analysis_cache[cache_key(t)] # None) =>
                pc'[t] = "get_read"
          /\ (Leaves(t, "get_read") /\ _analysis_cache[cache_key(t)] # None) =>
                /\ pc'[t] = "get_age"
                /\ cache_entry'[t] = _analysis_cache[cache_key(t)]
          /\ (Leaves(t, "get_age") /\ now - cache_entry[t].created_at <= 24) =>
                /\ pc'[t] = "Done"
                /\ result'[t].kind = "return"
                /\ result'[t].value.cached = TRUE
                /\ SameAnalysis(result'[t].value, cache_entry[t].response)
                /\ \E w \in written :
                      /\ w[1] = cache_key(t)
                      /\ w[2].response.cached = FALSE
                      /\ SameAnalysis(result'[t].value, w[2].response)
      ]_vars

\* C2 witness: the second of two calls has returned, served from the cache,
\* the analysis the first call stored
C2_Witness ==
    \E t \in Threads :
        /\ calls = 2
        /\ pc[t] = "Done" /\ result[t].value.cached
        /\ ~request[t].force_refresh
        /\ \E w \in written : w[1] = cache_key(t) /\ SameAnalysis(result[t].value, w[2].response)

\* the summaries of the two fallback results of _parse_ai_response
FallbackSummaries == {"Failed to parse AI response", "Error analyzing response"}

\* C3 (as claimed): a call that ends in FallbackDone leaves the cache as it
\* was, and no result served from the cache is a fallback result.
C3_FallbackNotCached ==
    [][ \A t \in Threads :
          /\ (Leaves(t, "provider") /\ pc'[t] = "FallbackDone") =>
                _analysis_cache' = _analysis_cache
          /\ (Leaves(t, "get_age") /\ pc'[t] = "Done") =>
                result'[t].value.summary \notin FallbackSummaries
      ]_vars

\* C4: graceful parse fallback.  A call whose provider reply is not valid
\* JSON, or lacks summary, root_cause or suggested_fix, returns (it does not
\* raise) a result in FallbackDone whose three text fields are present and
\* non-empty.
C4_GracefulFallback ==
    \A t \in Threads :
        (response_text[t] # None /\ Unusable(response_text[t])) =>
            /\ pc[t] = "FallbackDone"
            /\ result[t].kind = "return"
            /\ {"summary", "root_cause", "suggested_fix"} \subseteq DOMAIN result[t].value
            /\ result[t].value.summary # ""
            /\ result[t].value.root_cause # ""
            /\ result[t].value.suggested_fix # ""
            /\ result[t].value.cached = FALSE

\* C4 witness: a reply without root_cause has been answered by a fallback
C4_Witness ==
    \E t \in Threads :
        /\ pc[t] = "FallbackDone"
        /\ response_text[t].body.kind = "object"
        /\ "root_cause" \notin DOMAIN response_text[t].body.obj
        /\ result[t].value.root_cause = "Missing required field: root_cause"

\* C5 (as claimed): a call raises the provider error only when its provider
\* call failed, and then it has made no modification of the cache: no entry
\* added, replaced or removed.
C5_FailureLeavesCacheUntouched ==
    \A t \in Threads :
        (pc[t] = "ErrorDone" \/ result[t] = ProviderErrorRaised) =>
            /\ provider_failed[t]
            /\ own_ops[t] = {}

\* C5 (amended): a call raises the provider error only when its provider call
\* failed; the failing step leaves the cache unchanged and the call has stored
\* nothing; the only modification of the cache it can have made is the delete
\* of its own lookup (no forceRefresh) after finding the entry of its key older
\* than 24 hours.
C5_FailureStoresNothing ==
    [][ \A t \in Threads :
          /\ (pc'[t] = "ErrorDone" \/ result'[t] = ProviderErrorRaised) =>
                /\ provider_failed'[t]
                /\ result'[t] = ProviderErrorRaised
                /\ provider_calls'[t] = 1
                /\ own_ops'[t] \subseteq {"del"}
                /\ "del" \in own_ops'[t] =>
                      /\ ~request'[t].force_refresh
                      /\ cache_entry'[t] # None
                      /\ now' - cache_entry'[t].created_at > 24
          /\ (Leaves(t, "provider") /\ provider_failed'[t]) =>
                /\ pc'[t] = "ErrorDone"
                /\ _analysis_cache' = _analysis_cache
      ]_vars

\* C5 witness: a provider failure after the lookup evicted an expired entry
C5_Witness ==
    \E t \in Threads :
        /\ pc[t] = "ErrorDone" /\ result[t] = ProviderErrorRaised
        /\ own_ops[t] = {"del"}
        /\ _analysis_cache[cache_key(t)] = None

\* C6 (as claimed): on an enabled service every call that has ended is in one
\* of Done, FallbackDone, ErrorDone; a call makes at most one provider call,
\* none while it is in the lookup and none when it is served from the cache.
C6_PerCallStateMachine ==
    (enabled /\ client # "None") =>
        \A t \in Threads :
            /\ pc[t] \in {"idle"} \cup Running \cup {"Done", "FallbackDone", "ErrorDone"}
            /\ provider_calls[t] <= 1
            /\ pc[t] \in InLookup => provider_calls[t] = 0
            /\ (pc[t] = "Done" /\ result[t].value.cached) => provider_calls[t] = 0

\* C7: feature disabled.  When the service is not enabled or has no client,
\* every call fails with FeatureDisabled at once: it never enters the lookup,
\* never calls the provider, and the cache stays as it was (empty).
C7_FeatureDisabled ==
    ~(enabled /\ client # "None") =>
        /\ \A t \in Threads :
              /\ pc[t] \in {"idle", "Disabled"}
              /\ pc[t] = "Disabled" => result[t] = FeatureDisabledRaised
              /\ provider_calls[t] = 0
              /\ cache_entry[t] = None
              /\ own_ops[t] = {}
        /\ \A k \in Keys : _analysis_cache[k] = None
        /\ written = {}

\* C7 witness: the service is enabled by configuration but has no client, and
\* a call has failed with FeatureDisabled
C7_Witness ==
    \E t \in Threads :
        /\ enabled /\ client = "None"
        /\ pc[t] = "Disabled" /\ result[t] = FeatureDisabledRaised

\* C8: forced refresh.  A call with forceRefresh goes straight to the provider
\* and never into the lookup, whatever the cache holds; a result it returns has
\* cached = FALSE; and when it returns from the normal parse path (caching
\* enabled) the entry of its fingerprint is, whatever it was before, the new
\* result with the current time as creation time.
C8_ForcedRefresh ==
    [][ \A t \in Threads :
          /\ (Leaves(t, "idle") /\ enabled /\ client # "None" /\ request'[t].force_refresh) =>
                /\ pc'[t] = "provider"
                /\ provider_calls'[t] = 1
          /\ (pc'[t] # "idle" /\ request'[t].force_refresh) =>
                /\ pc'[t] \notin InLookup
                /\ cache_entry'[t] = None
                /\ result'[t] # None /\ result'[t].kind = "return" =>
                      result'[t].value.cached = FALSE
          /\ (Leaves(t, "provider") /\ request[t].force_refresh /\ pc'[t] = "Done"
                /\ cache_enabled) =>
                _analysis_cache'[cache_key(t)] =
                    [response |-> result'[t].value, created_at |-> now]
      ]_vars

\* C8 witness: a forced refresh has replaced an entry that was still within
\* the TTL by its own, different result
C8_Witness ==
    \E t \in Threads :
        /\ request[t] # None /\ request[t].force_refresh
        /\ pc[t] = "Done"
        /\ _analysis_cache[cache_key(t)] # None
        /\ _analysis_cache[cache_key(t)].response = result[t].value
        /\ \E w \in written :
              /\ w[1] = cache_key(t)
              /\ now - w[2].created_at <= 24
              /\ ~SameAnalysis(w[2].response, result[t].value)

\* C9 (as claimed): no lost update.  The entry a lookup deletes is the expired
\* entry it read; an entry stored meanwhile is not removed by it.
C9_NoLostUpdate ==
    [][ \A t \in Threads :
          (Leaves(t, "get_del") /\ _analysis_cache[cache_key(t)] # None) =>
              _analysis_cache[cache_key(t)] = cache_entry[t]
      ]_vars

\* C10: no torn read.  The entry a lookup holds, and every entry of the cache,
\* is an entry written as a whole by one store: its response and its creation
\* time come from the same store; a result served from the cache is the
\* response of the entry whose creation time the lookup tested.
C10_NoTornRead ==
    /\ \A k \in Keys :
          _analysis_cache[k] # None => <<k, _analysis_cache[k]>> \in written
    /\ \A t \in Threads :
          /\ cache_entry[t] # None => <<cache_key(t), cache_entry[t]>> \in written
          /\ (pc[t] = "Done" /\ result[t].value.cached) =>
                /\ cache_entry[t] # None
                /\ result[t].value = [cache_entry[t].response EXCEPT !.cached = TRUE]

\* C10 witness: a lookup holds the entry it read while a store by the other
\* thread has since replaced it in the cache
C10_Witness ==
    \E a \in Threads, b \in Threads :
        /\ pc[a] = "get_age"
        /\ "put" \in own_ops[b]
        /\ _analysis_cache[cache_key(a)] # None
        /\ _analysis_cache[cache_key(a)] # cache_entry[a]
        /\ cache_key(a) = cache_key(b)

\* the call of thread t went through the lookup and found no entry: a miss
Missed(t) ==
    /\ request[t] # None
    /\ ~request[t].force_refresh
    /\ cache_entry[t] = None
    /\ provider_calls[t] = 1

\* the call of thread t has returned a result of its own provider call and
\* stored it
ReturnedOwn(t) ==
    /\ pc[t] \in {"Done", "FallbackDone"}
    /\ "put" \in own_ops[t]
    /\ result[t].kind = "return"

\* C11: duplicate concurrent misses (caching enabled).  When two calls with the
\* same fingerprint have both missed the cache, each makes its own provider
\* call; the one that returns second, like the first, returns the result of
\* its own call with cached = FALSE, the result the first one returned stays
\* as it was, and the cache then holds under the fingerprint exactly the result
\* of the second store, created at the time of that store: last write wins.
C11_DuplicateMisses ==
    [][ \A t \in Threads, u \in Threads :
          ( /\ t # u
            /\ Missed(t) /\ Missed(u)
            /\ cache_key(t) = cache_key(u)
            /\ ReturnedOwn(u)
            /\ Leaves(t, "provider") /\ pc'[t] \in {"Done", "FallbackDone"} ) =>
              /\ result[u].value.cached = FALSE
              /\ result'[u] = result[u]
              /\ result'[t].kind = "return"
              /\ result'[t].value.cached = FALSE
              /\ SameAnalysis(result'[t].value, _parse_ai_response(response_text'[t]))
              /\ provider_calls'[t] = 1 /\ provider_calls'[u] = 1
              /\ _analysis_cache'[cache_key(t)] =
                    [response |-> result'[t].value, created_at |-> now]
      ]_vars

\* C11 witness: both calls missed, both called the provider and returned
\* different results; the cache holds the later one, stored after time passed
C11_Witness ==
    \E t \in Threads, u \in Threads :
        /\ t # u
        /\ Missed(t) /\ Missed(u)
        /\ ReturnedOwn(t) /\ ReturnedOwn(u)
        /\ ~SameAnalysis(result[t].value, result[u].value)
        /\ result[u].value.created_at < result[t].value.created_at
        /\ _analysis_cache[cache_key(t)].response = result[t].value
        /\ _analysis_cache[cache_key(t)].response # result[u].value

\* the statements a call executes itself: they take no waiting, so a call that
\* can take one of them does.  The two provider steps are not among them: the
\* code waits at l.222 for the client to return or to raise and sets no limit
\* of its own on that wait (no timeout at l.36, none at l.222-229).
OwnStep(t) ==
    \/ get_cached_member(t)
    \/ get_cached_read(t)
    \/ get_cached_age(t)
    \/ get_cached_del(t)
    \/ finish(t)

FairSpec == Spec /\ \A t \in Threads : WF_vars(OwnStep(t))

\* C12 (as claimed): bounded provider wait.  A call that waits for the
\* provider leaves the wait: by the reply, or else by a timeout that ends it as
\* ProviderError.
C12_BoundedProviderWait ==
    \A t \in Threads : (pc[t] = "provider") ~> (pc[t] \in Terminal)

\* the raw steps a payload submits
SubmittedSteps(payload) ==
    IF payload.kind \notin {"dict", "list"} THEN <<>>
    ELSE IF payload.kind = "list" THEN payload.items
    ELSE IF "steps" \in DOMAIN payload.map THEN payload.map.steps.items
    ELSE <<payload>>

RECURSIVE SumOfDurations(_)
SumOfDurations(raw_steps) ==
    IF raw_steps = <<>> THEN 0
    ELSE raw_steps[1].map.duration_ms.n + SumOfDurations(Tail(raw_steps))

\* the raw step gives a duration: a non-negative integer
GivesDuration(step_data) ==
    /\ "duration_ms" \in DOMAIN step_data.map
    /\ step_data.map.duration_ms.kind = "int"
    /\ step_data.map.duration_ms.n >= 0

\* parse_agent_log has been applied to the payload
Normalized == args # None /\ args.fn = "parse_agent_log" /\ returned # None

\* C13 (as claimed): duration aggregate.  When every step of the batch gives a
\* duration, the trace that normalize returns has total_duration_ms equal to
\* the sum of the durations, whatever the timestamps of the steps are.
C13_DurationAggregate ==
    (/\ Normalized
     /\ returned.kind = "return"
     /\ \A i \in DOMAIN SubmittedSteps(args.log_data) :
            GivesDuration(SubmittedSteps(args.log_data)[i])) =>
        returned.value.total_duration_ms = SumOfDurations(SubmittedSteps(args.log_data))

\* C14 (as claimed): lenient ingestion.  Applied to a mapping or to a sequence
\* of step mappings, normalize returns a trace: no timestamp (missing,
\* unparsable, of mixed forms) and no null or wrongly typed field makes it raise.
C14_LenientIngestion ==
    (Normalized /\ args.log_data.kind \in {"dict", "list"}) => returned.kind = "return"

\* the time a raw step's timestamp resolves to: what it spells, or the current
\* time when it has none or spells none
ResolvedTime(step_data) ==
    IF "timestamp" \in DOMAIN step_data.map /\ IsTimeText(step_data.map.timestamp)
    THEN step_data.map.timestamp.wall
    ELSE RunTime

\* C19 (as claimed): fallback derivation.  When no step of the batch gives a
\* duration, normalize returns a trace whose total_duration_ms is the time of
\* the last step minus the time of the first, in milliseconds and with its
\* sign; zero for a batch of one step.
C19_FallbackDuration ==
    (/\ Normalized
     /\ SubmittedSteps(args.log_data) # <<>>
     /\ \A i \in DOMAIN SubmittedSteps(args.log_data) :
            /\ SubmittedSteps(args.log_data)[i] \in WellTypedSteps
            /\ "duration_ms" \notin DOMAIN SubmittedSteps(args.log_data)[i].map) =>
        LET raw_steps == SubmittedSteps(args.log_data)
        IN /\ returned.kind = "return"
           /\ returned.value.total_duration_ms =
                 ResolvedTime(raw_steps[Len(raw_steps)]) - ResolvedTime(raw_steps[1])

\* every str at any depth passed through the redaction, nothing else changed
RECURSIVE RedactedEverywhere(_)
RedactedEverywhere(value) ==
    CASE value.kind = "dict" ->
            JDict([key \in DOMAIN value.map |-> RedactedEverywhere(value.map[key])])
      [] value.kind = "list" ->
            JList([i \in DOMAIN value.items |-> RedactedEverywhere(value.items[i])])
      [] value.kind = "str" -> sanitize_sensitive_string(value)
      [] OTHER -> value

\* C15 (as claimed): total sanitization.  What sanitize returns is the payload
\* with every string leaf at every depth redacted (also those directly in a
\* sequence, in nested sequences, and in a payload that is a sequence), the
\* keys and the other scalars as they were.
C15_TotalSanitization ==
    (args # None /\ args.fn = "sanitize_trace_data" /\ returned # None) =>
        returned.value = RedactedEverywhere(args.data)

\* the items of a Python dict as a mapping: keys to values, whatever the order
AsMapping(items) ==
    [k \in { items[i][1] : i \in DOMAIN items } |->
        items[CHOOSE i \in DOMAIN items : items[i][1] = k][2]]

\* two requests agree on error text, step kind, the first 500 characters of
\* the content, the inputs as mappings, and the trace id (a missing kind is the
\* empty kind, as for get)
AgreeOnFingerprintFields(a, b) ==
    /\ a.error_message = b.error_message
    /\ GetField(a.step_context, "step_type", "") = GetField(b.step_context, "step_type", "")
    /\ \A i \in 1..ContentKeyLimit :
          /\ i \in DOMAIN a.step_context.content <=> i \in DOMAIN b.step_context.content
          /\ i \in DOMAIN a.step_context.content =>
                a.step_context.content[i] = b.step_context.content[i]
    /\ AsMapping(a.step_context.inputs) = AsMapping(b.step_context.inputs)
    /\ a.trace_context.trace_id = b.trace_context.trace_id

CanonicalShape(payload) ==
    \/ /\ payload.kind = "dict"
       /\ "steps" \in DOMAIN payload.map
       /\ payload.map.steps.kind = "list"
    \/ /\ payload.kind = "list"
       /\ \A i \in DOMAIN payload.items : payload.items[i].kind = "dict"
    \/ /\ payload.kind = "dict"
       /\ "steps" \notin DOMAIN payload.map

\* no more steps than MAX_STEPS_PER_TRACE, no content longer than
\* MAX_STEP_CONTENT_LENGTH
WithinSizeLimits(payload) ==
    /\ Len(SubmittedSteps(payload)) <= MAX_STEPS_PER_TRACE
    /\ \A i \in DOMAIN SubmittedSteps(payload) :
          "content" \in DOMAIN SubmittedSteps(payload)[i].map =>
              ContentLength(SubmittedSteps(payload)[i].map.content) <= MAX_STEP_CONTENT_LENGTH

IsUpload == http_request # None /\ http_request.op \in {"upload_trace_guest", "upload_trace"}

\* C16: accepted wire shapes.  An upload in one of the three canonical
\* shapes, within the size limits and not turned away by the rate limiter,
\* is answered with success and leaves a stored trace that has one step per
\* submitted step.
C16_AcceptedWireShapes ==
    (/\ IsUpload
     /\ CanonicalShape(http_request.trace_data)
     /\ WithinSizeLimits(http_request.trace_data)
     /\ http_response.status # 429) =>
        /\ http_response.status = 200
        /\ get_stored_trace(http_response.body.id) # None
        /\ Len(get_stored_trace(http_response.body.id).steps) =
               Len(SubmittedSteps(http_request.trace_data))

\* C17: trace immutability.  No step other than a visibility update changes
\* the record of a trace already stored, in either store: reading it leaves
\* every field, each step's timestamp text included, as written at ingestion.
C17_TraceImmutability ==
    [][\A id \in TraceIdSet :
          (Drawn(id) /\ http_request'.op # "update_trace_visibility") =>
              /\ in_memory_traces'[id] = in_memory_traces[id]
              /\ traces_table'[id] = traces_table[id]]_vars

IsAnalysisExchange ==
    /\ http_request # None
    /\ http_request.op \in {"request_ai_analysis", "get_ai_analysis", "quick_error_analysis"}

\* the provider call made for the last request failed
ProviderCallFailed ==
    /\ IsAnalysisExchange
    /\ "analysis" \in DOMAIN http_response
    /\ http_response.analysis = Raised(ProviderError)

\* C20: provider failures are surfaced uniformly.  Through each of the three
\* analysis endpoints a failed provider call is answered with status 503 and
\* a detail other than that of the disabled feature, never with 404 or 200.
C20_ProviderFailure503 ==
    ProviderCallFailed =>
        /\ http_response.status = 503
        /\ http_response.detail # DisabledDetail

InvalidFormat == Raised("ValueError: Invalid log format")

MadeFrom(step, step_data) ==
    /\ "content" \in DOMAIN step_data.map => step.content = step_data.map.content
    /\ "duration_ms" \in DOMAIN step_data.map => step.duration_ms = step_data.map.duration_ms
    /\ "tokens_used" \in DOMAIN step_data.map => step.tokens_used = step_data.map.tokens_used
    /\ "error" \in DOMAIN step_data.map => step.error = step_data.map.error

\* C22: step order and count.  The trace normalize returns has one step per
\* raw step, the i-th made from the i-th raw step, and its metadata step_count
\* is that number.
C22_StepOrderAndCount ==
    (Normalized /\ returned.kind = "return") =>
        /\ Len(returned.value.steps) = Len(SubmittedSteps(args.log_data))
        /\ returned.value.metadata.step_count = Len(SubmittedSteps(args.log_data))
        /\ \A i \in DOMAIN returned.value.steps :
              MadeFrom(returned.value.steps[i], SubmittedSteps(args.log_data)[i])

\* C22 witness: a trace of two steps with different contents was returned
C22_Witness ==
    /\ Normalized /\ returned.kind = "return"
    /\ Len(returned.value.steps) = 2
    /\ returned.value.steps[1].content = JStr("hello")
    /\ returned.value.steps[2].content = JStr("world")

\* the canonical value of a field made from the value a raw step carries
Canonical(field, value) ==
    CASE field \in {"inputs", "outputs"} -> AsDict(value)
      [] field = "timestamp" -> parse_timestamp(value, RunTime)
      [] OTHER -> value

CarriesBoth(step_data, syn) ==
    syn.primary \in DOMAIN step_data.map /\ syn.secondary \in DOMAIN step_data.map

\* C23 (as claimed): synonym priority.  For each of the eight fields read
\* under two keys, a raw step that carries both keys gets the canonical value
\* made from the value under the primary key, also when that value is 0, the
\* empty text or an empty mapping.
C23_SynonymPriority ==
    (Normalized /\ returned.kind = "return") =>
        \A i \in DOMAIN returned.value.steps : \A f \in DOMAIN Synonyms :
            CarriesBoth(SubmittedSteps(args.log_data)[i], Synonyms[f]) =>
                returned.value.steps[i][Synonyms[f].field] =
                    Canonical(Synonyms[f].field,
                              SubmittedSteps(args.log_data)[i].map[Synonyms[f].primary])

CarriesNeither(step_data, primary, secondary) ==
    primary \notin DOMAIN step_data.map /\ secondary \notin DOMAIN step_data.map

\* the defaults of the fields other than the content
OtherDefaults(step, step_data) ==
    /\ CarriesNeither(step_data, "type", "step_type") => step.step_type = JStr("unknown")
    /\ CarriesNeither(step_data, "timestamp", "time") => step.timestamp = Naive(RunTime)
    /\ CarriesNeither(step_data, "inputs", "input") => step.inputs = JDict(EmptyMap)
    /\ CarriesNeither(step_data, "outputs", "output") => step.outputs = JDict(EmptyMap)

\* C24 (as claimed): defaults for missing fields.  A raw step that carries
\* neither key of a field gets its default: kind "unknown", the empty content,
\* the current time as timestamp, empty mappings for inputs and outputs.
C24_Defaults ==
    (Normalized /\ returned.kind = "return") =>
        \A i \in DOMAIN returned.value.steps :
            /\ OtherDefaults(returned.value.steps[i], SubmittedSteps(args.log_data)[i])
            /\ CarriesNeither(SubmittedSteps(args.log_data)[i], "content", "message") =>
                  returned.value.steps[i].content = JStr("")

\* the sum of the token counts of the steps that have one
RECURSIVE SumOfTokens(_)
SumOfTokens(steps) ==
    IF steps = <<>> THEN 0
    ELSE (IF steps[1].tokens_used.kind = "int" THEN steps[1].tokens_used.n ELSE 0)
             + SumOfTokens(Tail(steps))

\* the steps whose error is a text that is not empty
Erroring(steps) ==
    { i \in DOMAIN steps : steps[i].error.kind = "str" /\ steps[i].error # JStr("") }

\* C25: token and error aggregates.  total_tokens of the trace returned is
\* the sum of the token counts of its steps that have one, and error_count is
\* the number of its steps with a non-empty error, each of which has the error
\* text its raw step carries.
C25_TokenAndErrorAggregates ==
    (Normalized /\ returned.kind = "return") =>
        /\ returned.value.total_tokens = SumOfTokens(returned.value.steps)
        /\ returned.value.error_count = Cardinality(Erroring(returned.value.steps))
        /\ \A i \in Erroring(returned.value.steps) :
              "error" \in DOMAIN SubmittedSteps(args.log_data)[i].map =>
                  returned.value.steps[i].error = SubmittedSteps(args.log_data)[i].map.error

\* C25 witness: two steps, one with an error, with token counts 3 and 8
C25_Witness ==
    /\ Normalized /\ returned.kind = "return"
    /\ Len(returned.value.steps) = 2
    /\ returned.value.error_count = 1
    /\ returned.value.total_tokens = 11
    /\ returned.value.steps[2].error = JStr("ValueError: bad arg")

UniqueIds(steps) ==
    \A i, j \in DOMAIN steps : steps[i].id = steps[j].id => i = j

\* C26 (as claimed): step identifiers.  The steps of the trace returned have
\* identifiers that differ from one another, and a step whose raw step
\* supplies an identifier has that one.
C26_StepIdentifiers ==
    (Normalized /\ returned.kind = "return") =>
        /\ UniqueIds(returned.value.steps)
        /\ \A i \in DOMAIN returned.value.steps :
              "id" \in DOMAIN SubmittedSteps(args.log_data)[i].map =>
                  returned.value.steps[i].id = SubmittedSteps(args.log_data)[i].map.id

-----------------------------------------------------------------------------
(* Quota, plan and access checks of the server *)

\* the plan the subscription service reports for a user
PlanOf(user) == IF supabase THEN SubscribedPlan(user.id) ELSE "free"

\* the next exchange is an authenticated upload, by a free-plan user whose
\* trace_count has reached the limit, that passed the rate limiter,
\* validation and the normalizer
UploadOverQuota ==
    /\ http_request'.op = "upload_trace"
    /\ supabase
    /\ PlanOf(http_request'.current_user) = "free"
    /\ usage_limits[http_request'.current_user.id.s] >= FREE_TRACES_PER_MONTH
    /\ http_response'.status \notin {400, 413, 429}

\* C27 (as claimed): monthly quota.  With the database configured, an
\* authenticated upload by a free-plan user whose trace_count has reached the
\* limit of 10 is answered with 403, stores no trace and leaves the usage
\* counter as it was.
C27_MonthlyQuota ==
    [][UploadOverQuota =>
          /\ http_response'.status = 403
          /\ in_memory_traces' = in_memory_traces
          /\ traces_table' = traces_table
          /\ usage_limits' = usage_limits]_vars

\* C28 (as claimed): the GET analysis endpoint reads the cache only.  An
\* analysis it returns is a cached one, and it adds no entry to the cache.
C28_CacheOnlyGet ==
    [][http_request'.op = "get_ai_analysis" =>
          /\ http_response'.status = 200 => http_response'.body.cached
          /\ \A key \in ServerKeys :
                _analysis_cache[key] = None => _analysis_cache'[key] = None]_vars

\* C29 (as claimed): plan-gated analysis.  A request to an analysis endpoint
\* by a user whose plan lacks ai_features is answered with 403, returns no
\* analysis, and analyze_error is not called for it.
C29_PlanGatedAnalysis ==
    (IsAnalysisExchange /\ ~check_feature_access(http_request.current_user.id)) =>
        /\ http_response.status = 403
        /\ "body" \notin DOMAIN http_response
        /\ "analysis" \notin DOMAIN http_response

\* the stored trace asked for is private, owned and not a guest trace
AsksForPrivateTrace ==
    /\ http_request # None
    /\ http_request.op = "get_trace"
    /\ get_stored_trace(http_request.trace_id) # None
    /\ ~get_stored_trace(http_request.trace_id).is_public
    /\ ~is_guest(get_stored_trace(http_request.trace_id))
    /\ get_stored_trace(http_request.trace_id).user_id # JNull

\* C30 (as claimed): private trace access.  GET /api/traces/{id} of a private,
\* owned, non-guest trace answers an unauthenticated caller with 401 and an
\* authenticated caller other than the owner with 403, neither with content;
\* the owner is given the trace.
C30_PrivateTraceAccess ==
    AsksForPrivateTrace =>
        LET owner == get_stored_trace(http_request.trace_id).user_id
            caller == http_request.current_user
        IN /\ caller = None => http_response.status = 401
           /\ (caller # None /\ caller.id # owner) => http_response.status = 403
           /\ (caller = None \/ caller.id # owner) => "body" \notin DOMAIN http_response
           /\ (caller # None /\ caller.id = owner) => http_response.status = 200

-----------------------------------------------------------------------------
(* The rate limiter *)

\* the step is a request handled by check_rate_limit
LimiterStep == requests' # requests \/ rate_response' # rate_response

\* C31: rate limit.  For every client IP at most 100 requests are allowed
\* within the window of 3600 seconds that ends now.  A request of a client
\* with 100 allowed requests in the window is answered 429 and not recorded;
\* with fewer the request is allowed and recorded; either way the list kept
\* for the client is then exactly the allowed requests of the window.
C31_RateLimit ==
    [][/\ \A client_ip \in ClientIPs : Len(window_log'[client_ip]) <= RATE_LIMIT_REQUESTS
       /\ LimiterStep =>
             LET client_ip == rate_response'.client_ip
             IN /\ IF Len(window_log[client_ip]) >= RATE_LIMIT_REQUESTS
                   THEN /\ rate_response'.outcome.kind = "raise"
                        /\ rate_response'.outcome.error.status = 429
                        /\ window_log' = window_log
                   ELSE /\ rate_response'.outcome = Returned(TRUE)
                        /\ window_log'[client_ip] =
                              Append(window_log[client_ip], Instants[clock])
                /\ requests'[client_ip] = window_log'[client_ip]
                /\ \A other \in DOMAIN requests \ {client_ip} :
                      requests'[other] = requests[other]]_vars

\* C31 witness: at the last instant a client is turned away with 100 requests
\* in its window, the oldest from the instant before: those of the first
\* instant have left the window and the client had been allowed again
C31_Witness ==
    /\ clock = Len(Instants)
    /\ rate_response # None
    /\ rate_response.outcome.kind = "raise"
    /\ Len(requests[rate_response.client_ip]) = RATE_LIMIT_REQUESTS
    /\ requests[rate_response.client_ip][1] = Instants[clock - 1]
    /\ requests[rate_response.client_ip][RATE_LIMIT_REQUESTS] = Instants[clock]

-----------------------------------------------------------------------------
(* Guest traces and visibility *)

\* the trace stored under id is a guest trace as upload_trace_guest leaves it:
\* no owner, not public, the guest marker, in memory only
GuestRecord(id) ==
    /\ in_memory_traces[id] # None
    /\ is_guest(in_memory_traces[id])
    /\ in_memory_traces[id].user_id = JNull
    /\ ~in_memory_traces[id].is_public
    /\ traces_table[id] = None

\* the next exchange is an upload through op that stored the trace id
Stores(op, id) ==
    /\ http_request'.op = op
    /\ http_response'.status = 200
    /\ http_response'.body.id = id

\* C32: guest trace invariant.  A guest upload leaves a trace without owner,
\* not public, with the guest marker and in memory only; every later request
\* leaves it so; and a trace stored by an authenticated upload has no guest
\* marker.
C32_GuestTraceInvariant ==
    [][\A id \in TraceIdSet :
          /\ Stores("upload_trace_guest", id) => GuestRecord(id)'
          /\ GuestRecord(id) => GuestRecord(id)'
          /\ Stores("upload_trace", id) => ~is_guest(get_stored_trace(id))'
          /\ (get_stored_trace(id) # None /\ ~is_guest(get_stored_trace(id))) =>
                ~is_guest(get_stored_trace(id))']_vars

\* C32 witness: a user asked to make a guest trace public, without database,
\* and was refused
C32_Witness ==
    /\ http_request # None
    /\ http_request.op = "update_trace_visibility"
    /\ http_request.is_public
    /\ http_request.trace_id \in TraceIdSet
    /\ ~supabase
    /\ GuestRecord(http_request.trace_id)
    /\ http_response.status = 403

\* the traces changed by the step
Changed ==
    { id \in TraceIdSet : in_memory_traces'[id] # in_memory_traces[id]
                          \/ traces_table'[id] # traces_table[id] }

\* C33 (as claimed): visibility update.  The update succeeds only for the
\* owner of the trace and then changes the is_public flag of that trace and
\* nothing else; a caller who does not own the stored trace is answered 403,
\* a request for a trace that is not stored 404, and both leave every stored
\* trace as it was.
C33_VisibilityUpdate ==
    [][\A trace_id \in RequestedIds :
          (http_request'.op = "update_trace_visibility"
             /\ http_request'.trace_id = trace_id) =>
             LET trace_data == get_stored_trace(trace_id)
                 caller == http_request'.current_user
             IN /\ http_response'.status = 200 =>
                      /\ trace_data # None
                      /\ trace_data.user_id = caller.id
                      /\ get_stored_trace(trace_id)' =
                            [trace_data EXCEPT !.is_public = http_request'.is_public]
                      /\ Changed \subseteq {trace_id}
                /\ trace_data = None =>
                      http_response'.status = 404 /\ Changed = {}
                /\ (trace_data # None /\ trace_data.user_id # caller.id) =>
                      http_response'.status = 403 /\ Changed = {}]_vars

-----------------------------------------------------------------------------
(* The fingerprint and the prompt *)

\* C34 (as claimed): cache-hit soundness.  Two requests with the same
\* fingerprint, of which the second is served the entry stored for the
\* first, send the same prompt: the fingerprint covers every field of the
\* request that the prompt is made of, the previous steps included.
C34_CacheHitSoundness ==
    (args.fn = "_generate_prompt" /\ returned # None
       /\ returned.value.key = returned.value.other_key) =>
          returned.value.prompt = returned.value.other_prompt

-----------------------------------------------------------------------------
(* Eviction under concurrency, failed refresh, and the cache switched off *)

\* the fields of a complete result
ResultFields == {"summary", "root_cause", "suggested_fix", "model_used", "cached", "created_at"}

\* C35 (as claimed): safe concurrent eviction.  However lookups of one key
\* and stores interleave, no lookup raises: a call never ends with the
\* KeyError of the subscript or of the delete, and a result served from the
\* cache is a complete one.
C35_SafeConcurrentEviction ==
    \A t \in Threads :
        /\ pc[t] # "Crashed"
        /\ result[t] # Raised("KeyError")
        /\ (pc[t] = "Done" /\ result[t].value.cached) =>
              DOMAIN result[t].value = ResultFields

\* C37: a failed forced refresh keeps the old entry.  The step in which the
\* provider call of a call with force_refresh fails ends the call with the
\* provider error and leaves the cache, entry and creation time, as it was;
\* the call has made no modification of the cache; and a lookup that finds an
\* entry not older than 24 hours returns its response with cached = TRUE.
C37_FailedRefreshKeepsEntry ==
    [][\A t \in Threads :
          /\ (Leaves(t, "provider") /\ request[t].force_refresh /\ provider_failed'[t]) =>
                /\ pc'[t] = "ErrorDone"
                /\ result'[t] = ProviderErrorRaised
                /\ _analysis_cache' = _analysis_cache
                /\ written' = written
                /\ own_ops'[t] = {}
          /\ (Leaves(t, "get_age") /\ now - cache_entry[t].created_at <= CACHE_TTL_HOURS) =>
                /\ pc'[t] = "Done"
                /\ result'[t] = Returned([cache_entry[t].response EXCEPT !.cached = TRUE])
      ]_vars

\* C37 witness: a forced refresh has failed, the entry of its key is still
\* there and not older than 24 hours, and a call without force_refresh has
\* been served that entry
C37_Witness ==
    \E t \in Threads, u \in Threads :
        /\ pc[t] = "ErrorDone" /\ request[t].force_refresh /\ provider_failed[t]
        /\ _analysis_cache[cache_key(t)] # None
        /\ now - _analysis_cache[cache_key(t)].created_at <= CACHE_TTL_HOURS
        /\ pc[u] = "Done" /\ ~request[u].force_refresh
        /\ cache_key(u) = cache_key(t)
        /\ result[u] = Returned([_analysis_cache[cache_key(t)].response EXCEPT !.cached = TRUE])

\* C38: cache disabled.  With cache_enabled false no call reads, deletes or
\* stores an entry and the cache stays as it was; every call on an enabled
\* service goes to the provider, and a result it returns has cached = FALSE.
C38_CacheDisabled ==
    ~cache_enabled =>
        /\ \A k \in Keys : _analysis_cache[k] = None
        /\ written = {}
        /\ \A t \in Threads :
              /\ own_ops[t] = {}
              /\ pc[t] \notin {"get_read", "get_age", "get_del", "Crashed"}
              /\ cache_entry[t] = None
              /\ pc[t] \in {"provider", "Done", "FallbackDone", "ErrorDone"} =>
                    provider_calls[t] = 1
              /\ pc[t] \in {"Done", "FallbackDone"} => ~result[t].value.cached

\* C38 witness: with the cache switched off, two calls without force_refresh
\* for the same key have both been answered by the provider
C38_Witness ==
    /\ ~cache_enabled
    /\ \A t \in Threads :
          /\ pc[t] = "Done"
          /\ ~request[t].force_refresh
          /\ provider_calls[t] = 1
          /\ ~result[t].value.cached

-----------------------------------------------------------------------------
(* The usage counter *)

\* C36 (as claimed): usage counting.  When no increment is under way, the
\* trace_count of every user equals the number of uploads of that user that
\* have completed in the period.
C36_UsageCounting ==
    (\A w \in Workers : increments[w] = None) =>
        \A user \in UserNames : usage_limits[user] = uploads[user]

====
